---------------------------- MODULE Spec2Model ----------------------------
(***************************************************************************)
(* A model of the muscanner scan engine (src/scanner3.py) and of the scan  *)
(* flow of its desktop front end (src/gui_scanner_pro.py).                 *)
(*                                                                         *)
(* Text is a sequence of characters; a character is a short string token:  *)
(*   "a" "b" "e" "s"       lower-case letters                              *)
(*   "A" "B" "E"           upper-case letters                              *)
(*   "e^" "E^"             the precomposed letters U+00E9 and U+00C9       *)
(*   "^"                   the combining acute accent U+0301               *)
(*   "ss_"                 the letter U+00DF (sharp s)                     *)
(*   "." "(" ")"           regular-expression metacharacters               *)
(*   "{" "}" "," "q" " "   query syntax: braces, comma, double quote, blank*)
(*   "nl"                  the line terminator                             *)
(***************************************************************************)
EXTENDS Integers, Sequences, FiniteSets, TLC

(***************************************************************************)
(* Bounds of the model.                                                    *)
(***************************************************************************)
MaxTextLen == 3
MaxTerms == 2
MaxLines == 2

(***************************************************************************)
(* Generic helpers over sequences.                                         *)
(***************************************************************************)
RECURSIVE Concat(_)
\* "".join(parts): the concatenation of a sequence of texts
Concat(parts) ==
    IF parts = <<>> THEN <<>> ELSE Head(parts) \o Concat(Tail(parts))

\* the texts of length 0..n over the alphabet S
TextsUpTo(S, n) == UNION {[1..k -> S] : k \in 0..n}

\* the non-empty sequences of length 1..n over the set S
ListsUpTo(S, n) == UNION {[1..k -> S] : k \in 1..n}

\* Python's `q in t` on strings: q occurs as a contiguous block of t
IsSubstring(q, t) ==
    \E i \in 0..(Len(t) - Len(q)) :
        \A k \in 1..Len(q) : t[i + k] = q[k]

(***************************************************************************)
(* Normalisation: strip_accents, str.casefold, prep.                       *)
(***************************************************************************)
\* unicodedata.normalize("NFD", c) for one character
NFD(c) ==
    CASE c = "e^" -> <<"e", "^">>
      [] c = "E^" -> <<"E", "^">>
      [] OTHER -> <<c>>

\* unicodedata.combining(c) is non-zero
combining(c) == c = "^"

\* str.casefold for one character (full case folding: U+00DF folds to "ss")
casefoldChar(c) ==
    CASE c = "A" -> <<"a">>
      [] c = "B" -> <<"b">>
      [] c = "E" -> <<"e">>
      [] c = "E^" -> <<"e^">>
      [] c = "ss_" -> <<"s", "s">>
      [] OTHER -> <<c>>

casefold(s) == Concat([i \in 1..Len(s) |-> casefoldChar(s[i])])

\* a mutant of strip_accents: the combining characters are removed before
\* the text is decomposed, not after
strip_accents_filter_first(s) ==
    LET kept == SelectSeq(s, LAMBDA ch : ~combining(ch))
    IN  Concat([i \in 1..Len(kept) |-> NFD(kept[i])])

\* strip_accents(s)
strip_accents(s) ==
    LET nf == Concat([i \in 1..Len(s) |-> NFD(s[i])])
    IN  SelectSeq(nf, LAMBDA ch : ~combining(ch))

prep(s, case_sensitive, ignore_accents) ==
    LET out1 == IF ignore_accents THEN strip_accents(s) ELSE s
    IN  IF ~case_sensitive THEN casefold(out1) ELSE out1

(***************************************************************************)
(* difflib.SequenceMatcher(None, a, b).ratio(), without the junk heuristic *)
(* (it applies to sequences of 200 elements or more).                      *)
(***************************************************************************)
\* the length of the common block of a and b that starts at a[i], b[j]
\* and stays below ahi, bhi
RECURSIVE BlockLen(_, _, _, _, _, _)
BlockLen(a, b, i, j, ahi, bhi) ==
    IF i < ahi /\ j < bhi /\ a[i] = b[j]
    THEN 1 + BlockLen(a, b, i + 1, j + 1, ahi, bhi)
    ELSE 0

\* find_longest_match(alo, ahi, blo, bhi): the longest common block inside
\* a[alo..ahi-1], b[blo..bhi-1]; of the longest, the one starting earliest
\* in a, and of those the one starting earliest in b (1-based, ahi and bhi
\* exclusive)
find_longest_match(a, b, alo, ahi, blo, bhi) ==
    LET P == (alo..(ahi - 1)) \X (blo..(bhi - 1))
        best == IF P = {} THEN 0
                ELSE CHOOSE k \in 0..(ahi - alo) :
                       /\ \E p \in P : BlockLen(a, b, p[1], p[2], ahi, bhi) = k
                       /\ \A p \in P : BlockLen(a, b, p[1], p[2], ahi, bhi) <= k
    IN  IF best = 0 THEN [i |-> alo, j |-> blo, k |-> 0]
        ELSE LET bi == CHOOSE i \in alo..(ahi - 1) :
                         /\ \E j \in blo..(bhi - 1) :
                              BlockLen(a, b, i, j, ahi, bhi) = best
                         /\ \A i2 \in alo..(i - 1) : \A j \in blo..(bhi - 1) :
                              BlockLen(a, b, i2, j, ahi, bhi) < best
                 bj == CHOOSE j \in blo..(bhi - 1) :
                         /\ BlockLen(a, b, bi, j, ahi, bhi) = best
                         /\ \A j2 \in blo..(j - 1) :
                              BlockLen(a, b, bi, j2, ahi, bhi) < best
             IN  [i |-> bi, j |-> bj, k |-> best]

\* the total size of the blocks get_matching_blocks() finds: the longest
\* block, then recursively the pieces to its left and to its right
RECURSIVE MatchingSize(_, _, _, _, _, _)
MatchingSize(a, b, alo, ahi, blo, bhi) ==
    LET m == find_longest_match(a, b, alo, ahi, blo, bhi)
    IN  IF m.k = 0 THEN 0
        ELSE m.k
             + MatchingSize(a, b, alo, m.i, blo, m.j)
             + MatchingSize(a, b, m.i + m.k, ahi, m.j + m.k, bhi)

\* ratio() >= threshold, the threshold given in hundredths:
\* ratio = 2.0 * matches / (len(a) + len(b)), and 1.0 when both are empty
RatioAtLeast(a, b, thresholdPct) ==
    LET matches == MatchingSize(a, b, 1, Len(a) + 1, 1, Len(b) + 1)
        length == Len(a) + Len(b)
    IN  IF length = 0 THEN 100 >= thresholdPct
        ELSE 2 * matches * 100 >= thresholdPct * length

(***************************************************************************)
(* Regular expressions: the fragment of literals, the wildcard "." and     *)
(* parentheses.                                                            *)
(***************************************************************************)
\* the nesting depth after each prefix of the pattern
RECURSIVE ParenDepths(_, _)
ParenDepths(q, d) ==
    IF q = <<>> THEN <<d>>
    ELSE LET d2 == IF Head(q) = "(" THEN d + 1
                   ELSE IF Head(q) = ")" THEN d - 1 ELSE d
         IN  <<d>> \o ParenDepths(Tail(q), d2)

\* re.compile(query) succeeds: parentheses are balanced ("(" alone raises
\* "missing )", ")" alone raises "unbalanced parenthesis")
re_compiles(q) ==
    LET ds == ParenDepths(q, 0)
    IN  /\ \A i \in 1..Len(ds) : ds[i] >= 0
        /\ ds[Len(ds)] = 0

\* one pattern character against one text character
re_char_matches(p, t, ignorecase, dotall) ==
    IF p = "." THEN dotall \/ t # "nl"
    ELSE IF ignorecase THEN casefoldChar(p) = casefoldChar(t)
    ELSE p = t

\* pattern.search(text) is not None, for a compiled pattern: plain groups
\* do not change what the pattern finds
re_search(q, text, ignorecase, dotall) ==
    LET pat == SelectSeq(q, LAMBDA ch : ch \notin {"(", ")"})
    IN  \E i \in 0..(Len(text) - Len(pat)) :
            \A k \in 1..Len(pat) : re_char_matches(pat[k], text[i + k], ignorecase, dotall)

(***************************************************************************)
(* MatchConfig and the matchers.                                           *)
(***************************************************************************)
CONTAINS == "c"
REGEX == "r"
FUZZY == "f"

\* MatchConfig(query="", mode, case_sensitive, ignore_accents,
\* fuzzy_threshold, regex_flags): the threshold in hundredths, and of the
\* flags the one the front ends set, re.DOTALL
MatchConfig(mode, case_sensitive, ignore_accents, fuzzy_threshold, regex_dotall) ==
    [mode |-> mode, case_sensitive |-> case_sensitive,
     ignore_accents |-> ignore_accents, fuzzy_threshold |-> fuzzy_threshold,
     regex_dotall |-> regex_dotall]

\* the default configuration: MatchConfig's field defaults
DefaultConfig == MatchConfig(CONTAINS, FALSE, TRUE, 78, FALSE)

\* build_single_matcher(cfg with query q) raises (re.error)
\* a mutant of build_single_matcher: a compile failure is swallowed
single_matcher_raises_never(q, cfg) == FALSE

single_matcher_raises(q, cfg) == cfg.mode = REGEX /\ ~re_compiles(q)

\* a mutant of build_single_matcher: the fuzzy predicate goes by the
\* ratio alone
single_matcher_ratio_only(q, cfg, text) ==
    IF cfg.mode = REGEX
    THEN re_search(q, text, ~cfg.case_sensitive, cfg.regex_dotall)
    ELSE LET qn == prep(q, cfg.case_sensitive, cfg.ignore_accents)
             tn == prep(text, cfg.case_sensitive, cfg.ignore_accents)
         IN  IF cfg.mode = FUZZY
             THEN RatioAtLeast(qn, tn, cfg.fuzzy_threshold)
             ELSE IsSubstring(qn, tn)

\* the predicate build_single_matcher(cfg with query q) returns, on text
single_matcher(q, cfg, text) ==
    IF cfg.mode = REGEX
    THEN re_search(q, text, ~cfg.case_sensitive, cfg.regex_dotall)
    ELSE LET qn == prep(q, cfg.case_sensitive, cfg.ignore_accents)
             tn == prep(text, cfg.case_sensitive, cfg.ignore_accents)
         IN  IF cfg.mode = FUZZY
             THEN IF IsSubstring(qn, tn) THEN TRUE
                  ELSE RatioAtLeast(qn, tn, cfg.fuzzy_threshold)
             ELSE IsSubstring(qn, tn)

\* build_multi_matcher raises: the list comprehension builds every term's
\* matcher, and the first failing build aborts it
multi_matcher_raises(queries, cfg) ==
    \E i \in 1..Len(queries) : single_matcher_raises(queries[i], cfg)

\* a mutant of the conjunction: the last term's matcher is left out
RECURSIVE multi_matcher_drop_last(_, _, _)
multi_matcher_drop_last(queries, cfg, text) ==
    IF Len(queries) <= 1 THEN TRUE
    ELSE IF ~single_matcher(Head(queries), cfg, text) THEN FALSE
    ELSE multi_matcher_drop_last(Tail(queries), cfg, text)

\* the predicate build_multi_matcher returns: all(m(text) for m in
\* matchers), evaluated left to right and stopping at the first failure
RECURSIVE multi_matcher(_, _, _)
multi_matcher(queries, cfg, text) ==
    IF queries = <<>> THEN TRUE
    ELSE IF ~single_matcher(Head(queries), cfg, text) THEN FALSE
    ELSE multi_matcher(Tail(queries), cfg, text)

(***************************************************************************)
(* Files.  A file's text is `head`, its first lines written out, followed  *)
(* by `rep_count` copies of the line `rep` (a long file is a short head    *)
(* and a long run of one line).  Each line carries its terminator.  The    *)
(* bytes of the file are the UTF-8 bytes of that text, and io_error names  *)
(* the one system call that fails on the file, if any:                     *)
(*   "stat"  file_path.stat() raises                                       *)
(*   "open"  the binary open or the sample read raises                     *)
(*   "read"  the text open or the read of some line raises                 *)
(***************************************************************************)
\* Python's None for an optional count (max_examples, max_file_size_mb):
\* a value that no count takes
None == 0 - 1

\* Python's None where a ContentHit is expected, and an exception in its
\* place
NoHit == [kind |-> "None"]
Raised == [kind |-> "raise"]

Min(a, b) == IF a <= b THEN a ELSE b
Max(a, b) == IF a >= b THEN a ELSE b

\* the UTF-8 bytes of one character
CharBytes(c) ==
    CASE c = "nul" -> <<0>>
      [] c = "bel" -> <<7>>
      [] c = "nl" -> <<10>>
      [] c = " " -> <<32>>
      [] c = "q" -> <<34>>
      [] c = "(" -> <<40>>
      [] c = ")" -> <<41>>
      [] c = "," -> <<44>>
      [] c = "." -> <<46>>
      [] c = "A" -> <<65>>
      [] c = "B" -> <<66>>
      [] c = "E" -> <<69>>
      [] c = "a" -> <<97>>
      [] c = "b" -> <<98>>
      [] c = "e" -> <<101>>
      [] c = "s" -> <<115>>
      [] c = "{" -> <<123>>
      [] c = "}" -> <<125>>
      [] c = "E^" -> <<195, 137>>
      [] c = "e^" -> <<195, 169>>
      [] c = "ss_" -> <<195, 159>>
      [] c = "^" -> <<204, 129>>

TextBytes(t) == Concat([i \in 1..Len(t) |-> CharBytes(t[i])])

File(head, rep, rep_count, io_error) ==
    [head |-> head, rep |-> rep, rep_count |-> rep_count, io_error |-> io_error]

HeadBytes(f) == Concat([i \in 1..Len(f.head) |-> TextBytes(f.head[i])])

\* st.st_size
st_size(f) == Len(HeadBytes(f)) + f.rep_count * Len(TextBytes(f.rep))

\* the first n bytes of the bytes hb followed by a run of the bytes rb,
\* size bytes in all
FirstBytes(hb, rb, size, n) ==
    [i \in 1..Min(n, size) |->
        IF i <= Len(hb) THEN hb[i]
        ELSE rb[((i - Len(hb) - 1) % Len(rb)) + 1]]

\* bf.read(n): the first n bytes of the file
read_sample(f, n) == FirstBytes(HeadBytes(f), TextBytes(f.rep), st_size(f), n)

SAMPLE_SIZE == 8192

\* a mutant of looks_binary: the share of control bytes is compared with
\* >= where the code has >
looks_binary_at_least(sample) ==
    IF \E i \in 1..Len(sample) : sample[i] = 0 THEN TRUE
    ELSE LET nontext == Cardinality({i \in 1..Len(sample) :
                            sample[i] < 9 \/ (13 < sample[i] /\ sample[i] < 32)})
         IN  Len(sample) > 0 /\ nontext * 100 >= 12 * Len(sample)

\* looks_binary(sample): nontext / len(sample) > 0.12 compared in integers
looks_binary(sample) ==
    IF \E i \in 1..Len(sample) : sample[i] = 0 THEN TRUE
    ELSE LET nontext == Cardinality({i \in 1..Len(sample) :
                            sample[i] < 9 \/ (13 < sample[i] /\ sample[i] < 32)})
         IN  Len(sample) > 0 /\ nontext * 100 > 12 * Len(sample)

(***************************************************************************)
(* scan_file_content.  The captured examples are                           *)
(*   list    the (line number, snippet) pairs captured from the head       *)
(*   rep_n   how many further examples were captured from the run of rep:  *)
(*           its first rep_n lines, each with the snippet of rep           *)
(***************************************************************************)
HARD_CAP_PER_FILE == 50000
SNIPPET_MAX == 240

RECURSIVE rstrip_newlines(_)
\* line.rstrip("\n\r")
rstrip_newlines(line) ==
    IF line # <<>> /\ line[Len(line)] \in {"nl", "cr"}
    THEN rstrip_newlines(SubSeq(line, 1, Len(line) - 1))
    ELSE line

\* the snippet stored for a captured line
Snippet(line) ==
    LET snippet == rstrip_newlines(line)
    IN  IF Len(snippet) > SNIPPET_MAX
        THEN SubSeq(snippet, 1, SNIPPET_MAX) \o <<"...">>
        ELSE snippet

\* a mutant of the capture rule: a limit of 0 is taken for "no limit", as a
\* truthiness test of max_examples would
CaptureRoom_zero_is_unbounded(max_examples, n_examples) ==
    IF max_examples = None \/ max_examples = 0
    THEN Max(0, HARD_CAP_PER_FILE - n_examples)
    ELSE Max(0, max_examples - n_examples)

\* a mutant of the capture rule: the hard cap is tested with > where the
\* code has >=, so one example more is captured
CaptureRoom_cap_plus_one(max_examples, n_examples) ==
    IF max_examples = 0 THEN 0
    ELSE IF max_examples = None
    THEN Max(0, HARD_CAP_PER_FILE + 1 - n_examples)
    ELSE Max(0, max_examples - n_examples)

\* how many more examples the loop body will still capture when
\* n_examples are captured already: none with max_examples == 0, up to the
\* hard cap with max_examples None, up to max_examples otherwise
CaptureRoom(max_examples, n_examples) ==
    IF max_examples = 0 THEN 0
    ELSE IF max_examples = None
    THEN Max(0, HARD_CAP_PER_FILE - n_examples)
    ELSE Max(0, max_examples - n_examples)

\* the loop over the lines of the head, from line i on: the body counts a
\* matching line and captures it while there is room
RECURSIVE scan_head(_, _, _, _, _, _, _)
scan_head(head, i, queries, cfg, max_examples, matches, examples) ==
    IF i > Len(head) THEN [matches |-> matches, examples |-> examples]
    ELSE IF multi_matcher(queries, cfg, head[i])
    THEN scan_head(head, i + 1, queries, cfg, max_examples, matches + 1,
                   IF CaptureRoom(max_examples, Len(examples)) > 0
                   THEN Append(examples, <<i, Snippet(head[i])>>)
                   ELSE examples)
    ELSE scan_head(head, i + 1, queries, cfg, max_examples, matches, examples)

\* the same loop over the whole text: the head line by line, then the
\* rep_count equal lines of the run, every one of which matches or none
scan_lines(f, queries, cfg, max_examples) ==
    LET h == scan_head(f.head, 1, queries, cfg, max_examples, 0, <<>>)
        rep_matches == f.rep_count > 0 /\ multi_matcher(queries, cfg, f.rep)
    IN  [matches |-> h.matches + (IF rep_matches THEN f.rep_count ELSE 0),
         examples |->
            [list |-> h.examples,
             rep_n |-> IF rep_matches
                       THEN Min(f.rep_count,
                                CaptureRoom(max_examples, Len(h.examples)))
                       ELSE 0]]

\* a mutant of the size test: the size is cut to whole MiB before it is
\* compared
TooLarge_whole_mib(f, max_file_size_mb) ==
    max_file_size_mb # None /\ st_size(f) \div (1024 * 1024) > max_file_size_mb

\* max_file_size_mb is not None and st.st_size > max_file_size_mb * 1024 * 1024
TooLarge(f, max_file_size_mb) ==
    max_file_size_mb # None /\ st_size(f) > max_file_size_mb * 1024 * 1024

\* ContentHit(path, matches_count, examples)
ContentHit(path, matches_count, examples) ==
    [kind |-> "ContentHit", path |-> path, matches_count |-> matches_count,
     examples |-> examples]

\* a mutant of the final test: a hit is returned for every file read to
\* its end
ReturnHit_always(path, r) == ContentHit(path, r.matches, r.examples)

\* if matches > 0: return ContentHit(...); return None
ReturnHit(path, r) ==
    IF r.matches > 0 THEN ContentHit(path, r.matches, r.examples) ELSE NoHit

\* a mutant of the error handling: an exception of the line loop is not
\* caught
ReadFailure_raises == Raised

\* what scan_file_content returns when the text open or a line read raises
ReadFailure == NoHit

\* scan_file_content(file_path, matcher, max_examples, max_file_size_mb):
\* what it returns (hit: a ContentHit, NoHit, or Raised for an exception
\* that leaves it) and which of the file's contents it touched
scan_file_content(path, f, queries, cfg, max_examples, max_file_size_mb) ==
    IF f.io_error = "stat"
    THEN [hit |-> NoHit, opened |-> FALSE, lines_read |-> FALSE]
    ELSE IF TooLarge(f, max_file_size_mb)
    THEN [hit |-> NoHit, opened |-> FALSE, lines_read |-> FALSE]
    ELSE IF f.io_error = "open"
    THEN [hit |-> NoHit, opened |-> TRUE, lines_read |-> FALSE]
    ELSE IF looks_binary(read_sample(f, SAMPLE_SIZE))
    THEN [hit |-> NoHit, opened |-> TRUE, lines_read |-> FALSE]
    ELSE IF f.io_error = "read"
    THEN [hit |-> ReadFailure, opened |-> TRUE, lines_read |-> TRUE]
    ELSE [hit |-> ReturnHit(path, scan_lines(f, queries, cfg, max_examples)),
          opened |-> TRUE, lines_read |-> TRUE]

(***************************************************************************)
(* parse_queries.  The raw query is a text without line terminators.       *)
(***************************************************************************)
\* str.isspace for one character
IsSpace(c) == c \in {" ", "nl", "cr"}

RECURSIVE lstrip(_)
lstrip(t) == IF t # <<>> /\ IsSpace(Head(t)) THEN lstrip(Tail(t)) ELSE t

RECURSIVE rstrip(_)
rstrip(t) ==
    IF t # <<>> /\ IsSpace(t[Len(t)]) THEN rstrip(SubSeq(t, 1, Len(t) - 1)) ELSE t

\* str.strip()
strip(t) == rstrip(lstrip(t))

\* next(csv.reader([s], skipinitialspace=True)): the reader's automaton
\* over the characters of s from position i on, with the fields saved so
\* far and the field being read; "q" is the quote character.  After the
\* last character the reader saves the open field, but a text that ended
\* before any field began gives the empty row.
RECURSIVE csv_row(_, _, _, _, _)
csv_row(s, i, state, field, fields) ==
    IF i > Len(s)
    THEN IF state = "START_RECORD" THEN fields ELSE Append(fields, field)
    ELSE LET c == s[i] IN
         IF state \in {"START_RECORD", "START_FIELD"}
         THEN IF c = "q" THEN csv_row(s, i + 1, "IN_QUOTED_FIELD", <<>>, fields)
              ELSE IF c = " " THEN csv_row(s, i + 1, "START_FIELD", <<>>, fields)
              ELSE IF c = ","
              THEN csv_row(s, i + 1, "START_FIELD", <<>>, Append(fields, <<>>))
              ELSE csv_row(s, i + 1, "IN_FIELD", <<c>>, fields)
         ELSE IF state = "IN_FIELD"
         THEN IF c = ","
              THEN csv_row(s, i + 1, "START_FIELD", <<>>, Append(fields, field))
              ELSE csv_row(s, i + 1, "IN_FIELD", Append(field, c), fields)
         ELSE IF state = "IN_QUOTED_FIELD"
         THEN IF c = "q"
              THEN csv_row(s, i + 1, "QUOTE_IN_QUOTED_FIELD", field, fields)
              ELSE csv_row(s, i + 1, "IN_QUOTED_FIELD", Append(field, c), fields)
         ELSE \* QUOTE_IN_QUOTED_FIELD
              IF c = "q"
              THEN csv_row(s, i + 1, "IN_QUOTED_FIELD", Append(field, c), fields)
              ELSE IF c = ","
              THEN csv_row(s, i + 1, "START_FIELD", <<>>, Append(fields, field))
              ELSE csv_row(s, i + 1, "IN_FIELD", Append(field, c), fields)

\* parse_queries(raw)
parse_queries(raw) ==
    LET s0 == strip(raw)
        s == IF s0 # <<>> /\ Head(s0) = "{" /\ s0[Len(s0)] = "}"
             THEN strip(SubSeq(s0, 2, Len(s0) - 1))
             ELSE s0
        parts == csv_row(s, 1, "START_RECORD", <<>>, <<>>)
        stripped == [i \in 1..Len(parts) |-> strip(parts[i])]
        queries == SelectSeq(stripped, LAMBDA q : q # <<>>)
    IN  IF queries # <<>> THEN queries ELSE <<strip(raw)>>

(***************************************************************************)
(* The filesystem: a tree of entries.  A directory lists its entries in    *)
(* the order the system returns them; a path is the sequence of the names  *)
(* from the top of the tree, and the empty path is the empty string.       *)
(***************************************************************************)
NoFile == File(<<>>, <<"nl">>, 0, "none")

DirEntry(name, entries) ==
    [name |-> name, is_dir |-> TRUE, entries |-> entries, file |-> NoFile]

FileEntry(name, file) ==
    [name |-> name, is_dir |-> FALSE, entries |-> <<>>, file |-> file]

\* the index of the entry called name in a listing, 0 when there is none
IndexOf(entries, name) ==
    IF \E i \in 1..Len(entries) : entries[i].name = name
    THEN CHOOSE i \in 1..Len(entries) : entries[i].name = name
    ELSE 0

\* the entries at and below path, looked up from a listing: <<e>> when the
\* path names the entry e, <<>> when it names nothing
RECURSIVE Lookup(_, _)
Lookup(entries, path) ==
    IF path = <<>> THEN <<>>
    ELSE LET i == IndexOf(entries, Head(path))
         IN  IF i = 0 THEN <<>>
             ELSE IF Len(path) = 1 THEN <<entries[i]>>
             ELSE IF entries[i].is_dir THEN Lookup(entries[i].entries, Tail(path))
             ELSE <<>>

\* Path.exists(), Path.is_file(), Path.is_dir()
exists(tree, path) == Lookup(tree, path) # <<>>
is_file(tree, path) == exists(tree, path) /\ ~Lookup(tree, path)[1].is_dir
is_dir(tree, path) == exists(tree, path) /\ Lookup(tree, path)[1].is_dir

\* the file at a path that names a file
FileAt(tree, path) == Lookup(tree, path)[1].file

\* two of the ten names of DEFAULT_IGNORE_DIRS, ".git" and "env": the
\* trees of the model have no directory with one of the other eight
DEFAULT_IGNORE_DIRS == {<<".", "g", "i", "t">>, <<"e", "n", "v">>}

\* a mutant of the walk: the directories are yielded before the ignored
\* names are removed, so an ignored directory is yielded but not entered
RECURSIVE walk_yield_then_prune(_, _, _)
walk_yield_then_prune(rootp, entries, ignore_dirs) ==
    LET alldirs == SelectSeq(entries, LAMBDA e : e.is_dir)
        dirs == SelectSeq(entries, LAMBDA e : e.is_dir /\ e.name \notin ignore_dirs)
        files == SelectSeq(entries, LAMBDA e : ~e.is_dir)
    IN  [i \in 1..Len(alldirs) |-> <<rootp \o <<alldirs[i].name>>, TRUE>>]
        \o [i \in 1..Len(files) |-> <<rootp \o <<files[i].name>>, FALSE>>]
        \o Concat([i \in 1..Len(dirs) |->
                     walk_yield_then_prune(rootp \o <<dirs[i].name>>,
                                           dirs[i].entries, ignore_dirs)])

\* os.walk(base) with the pruning of iter_dirs_files: for each directory,
\* top down, its kept subdirectories, then its files, then the walk of
\* each kept subdirectory
RECURSIVE walk(_, _, _)
walk(rootp, entries, ignore_dirs) ==
    LET dirs == SelectSeq(entries, LAMBDA e : e.is_dir /\ e.name \notin ignore_dirs)
        files == SelectSeq(entries, LAMBDA e : ~e.is_dir)
    IN  [i \in 1..Len(dirs) |-> <<rootp \o <<dirs[i].name>>, TRUE>>]
        \o [i \in 1..Len(files) |-> <<rootp \o <<files[i].name>>, FALSE>>]
        \o Concat([i \in 1..Len(dirs) |->
                     walk(rootp \o <<dirs[i].name>>, dirs[i].entries, ignore_dirs)])

\* a mutant of iter_dirs_files: the return that ends the single-level
\* branch is missing, so the children of base are yielded again by the walk
iter_dirs_files_falls_through(tree, base, recursive, ignore_dirs) ==
    IF is_file(tree, base) THEN << <<base, FALSE>> >>
    ELSE IF ~is_dir(tree, base) THEN <<>>
    ELSE LET entries == Lookup(tree, base)[1].entries
         IN  IF ~recursive
             THEN [i \in 1..Len(entries) |->
                     <<base \o <<entries[i].name>>, entries[i].is_dir>>]
                  \o walk(base, entries, ignore_dirs)
             ELSE walk(base, entries, ignore_dirs)

\* list(iter_dirs_files(base, recursive, ignore_dirs)): (path, is_dir)
iter_dirs_files(tree, base, recursive, ignore_dirs) ==
    IF is_file(tree, base) THEN << <<base, FALSE>> >>
    ELSE IF ~is_dir(tree, base) THEN <<>>
    ELSE LET entries == Lookup(tree, base)[1].entries
         IN  IF ~recursive
             THEN [i \in 1..Len(entries) |->
                     <<base \o <<entries[i].name>>, entries[i].is_dir>>]
             ELSE walk(base, entries, ignore_dirs)

PASTA == "PASTA"
ARQUIVO == "ARQUIVO"

\* a mutant of iter_name_candidates: the second test is `elif want_files`,
\* without `not is_dir`
iter_name_candidates_any_as_file(tree, base, recursive, ignore_dirs, want_dirs, want_files) ==
    LET all == iter_dirs_files(tree, base, recursive, ignore_dirs)
        kept == SelectSeq(all, LAMBDA x : (x[2] /\ want_dirs) \/ want_files)
    IN  [i \in 1..Len(kept) |->
            <<kept[i][1], IF kept[i][2] /\ want_dirs THEN PASTA ELSE ARQUIVO>>]

\* list(iter_name_candidates(...)): (path, kind)
iter_name_candidates(tree, base, recursive, ignore_dirs, want_dirs, want_files) ==
    LET all == iter_dirs_files(tree, base, recursive, ignore_dirs)
        kept == SelectSeq(all, LAMBDA x : (x[2] /\ want_dirs) \/ (~x[2] /\ want_files))
    IN  [i \in 1..Len(kept) |->
            <<kept[i][1], IF kept[i][2] THEN PASTA ELSE ARQUIVO>>]

\* the last name of a path: Path.name
PathName(path) == path[Len(path)]

\* str.lower for one character
lowerChar(c) ==
    CASE c = "A" -> "a"
      [] c = "B" -> "b"
      [] c = "E" -> "e"
      [] c = "E^" -> "e^"
      [] OTHER -> c

lower(t) == [i \in 1..Len(t) |-> lowerChar(t[i])]

\* Path.suffix: the name from its last dot on, when that dot is neither
\* the first nor the last character
suffix(name) ==
    LET dots == {i \in 1..Len(name) : name[i] = "."}
    IN  IF dots = {} THEN <<>>
        ELSE LET i == CHOOSE d \in dots : \A d2 \in dots : d2 <= d
             IN  IF 1 < i /\ i < Len(name) THEN SubSeq(name, i, Len(name)) ELSE <<>>

\* an absent allow-list of extensions (exts is None), and a given one
NoExts == [none |-> TRUE, set |-> {}]
Exts(S) == [none |-> FALSE, set |-> S]

\* a mutant of iter_content_candidates: p.suffix is compared as it is,
\* without .lower()
iter_content_candidates_cased(tree, base, recursive, ignore_dirs, exts) ==
    LET all == iter_dirs_files(tree, base, recursive, ignore_dirs)
        kept == SelectSeq(all, LAMBDA x :
                    ~x[2] /\ (exts.none \/ suffix(PathName(x[1])) \in exts.set))
    IN  [i \in 1..Len(kept) |-> kept[i][1]]

\* list(iter_content_candidates(...)): paths
iter_content_candidates(tree, base, recursive, ignore_dirs, exts) ==
    LET all == iter_dirs_files(tree, base, recursive, ignore_dirs)
        kept == SelectSeq(all, LAMBDA x :
                    ~x[2] /\ (exts.none \/ lower(suffix(PathName(x[1]))) \in exts.set))
    IN  [i \in 1..Len(kept) |-> kept[i][1]]

\* a mutant of count_iter: n starts at 1
count_iter_from_one(it) == Len(it) + 1

\* count_iter(it)
count_iter(it) == Len(it)

\* NameHit(path, kind)
NameHit(path, kind) == [path |-> path, kind |-> kind]

\* str.split(",") on a text
RECURSIVE split_comma(_, _)
split_comma(t, cur) ==
    IF t = <<>> THEN <<cur>>
    ELSE IF Head(t) = "," THEN <<cur>> \o split_comma(Tail(t), <<>>)
    ELSE split_comma(Tail(t), Append(cur, Head(t)))

\* the allow-list the front ends build from the raw text of extensions:
\* every part trimmed and lower-cased, empty parts dropped, a leading dot
\* added where missing
parse_exts(raw_exts) ==
    LET parts == split_comma(raw_exts, <<>>)
        ts == {lower(strip(parts[i])) : i \in 1..Len(parts)} \ {<<>>}
    IN  {IF Head(t) = "." THEN t ELSE <<".">> \o t : t \in ts}

(***************************************************************************)
(* The state.                                                              *)
(***************************************************************************)
VARIABLES
    mm_pc,        \* the matcher experiment: "input", "built", "raised", "applied"
    mm_queries,   \* build_multi_matcher's queries
    mm_base_cfg,  \* build_multi_matcher's base_cfg
    mm_text,      \* the text unit the predicate is applied to
    mm_result,    \* what the predicate returned
    sf_pc,        \* the scan_file_content experiment: "input", "returned"
    sf_file,      \* the file at file_path
    sf_matcher,   \* the terms and the configuration of the matcher
    sf_max_examples,      \* max_examples: None or a count
    sf_max_file_size_mb,  \* max_file_size_mb: None or a count
    sf_result,    \* what scan_file_content returned and touched
    fs,           \* the filesystem: the listing of the top of the tree
    form,         \* the Tk variables of the search form
    scan_thread,  \* self._scan_thread: "None" or "Thread"
    stop_flag,    \* self._stop_flag
    is_scanning,  \* self._is_scanning
    form_enabled, \* the form and Scan are enabled and Stop is disabled
    export_enabled,    \* the export buttons are enabled
    badge_var,    \* the status badge
    res_summary,  \* the results summary: its label and its count
    scan_total,   \* self._scan_total
    scan_done,    \* self._scan_done
    last_mode,    \* self.last_mode
    last_hits_names,   \* self.last_hits_names
    last_hits_content, \* self.last_hits_content
    messagebox,   \* the error dialog on screen, "" when there is none
    after_queue,  \* the callbacks queued with self.after(0, ...), in order
    w_pc,         \* where the worker thread is in _run_scan
    w,            \* _run_scan's locals read from the form
    w_total,      \* _run_scan's total
    w_done,       \* _run_scan's done
    w_hits,       \* _run_scan's hits / hits_c
    w_pos,        \* how many candidates the scan loop's iterator has yielded
    threads_alive, \* the number of worker threads started and not yet ended
    cli_pc,       \* where the console front end is: "off" when the window runs
    cli_args,     \* the command line, or the answers to interactive_main's prompts
    cli_l,        \* the console front end's locals
    cli_total,    \* scan_*_with_progress's total
    cli_done,     \* scan_*_with_progress's scanned
    cli_hits,     \* scan_*_with_progress's hits
    cli_ret,      \* the exit status, None while there is none
    en_pc,        \* the enumerator experiment: "input", "listed"
    en_tree,      \* the filesystem the enumerator walks
    en_base,      \* iter_dirs_files's base
    en_recursive, \* iter_dirs_files's recursive
    en_ignore_dirs,  \* iter_dirs_files's ignore_dirs
    en_result,    \* list(iter_dirs_files(...)) or list(iter_content_candidates(...))
    en_exts       \* the extensions as the user gave them to a front end

mm_vars == <<mm_pc, mm_queries, mm_base_cfg, mm_text, mm_result>>

sf_vars == <<sf_pc, sf_file, sf_matcher, sf_max_examples,
             sf_max_file_size_mb, sf_result>>

ui_vars == <<form, scan_thread, stop_flag, is_scanning, form_enabled,
             export_enabled, badge_var, res_summary, scan_total, scan_done,
             last_mode, last_hits_names, last_hits_content, messagebox>>

worker_vars == <<w_pc, w, w_total, w_done, w_hits, w_pos>>

gui_vars == <<fs, ui_vars, after_queue, worker_vars, threads_alive>>

cli_vars == <<cli_pc, cli_args, cli_l, cli_total, cli_done, cli_hits, cli_ret>>

en_vars == <<en_pc, en_tree, en_base, en_recursive, en_ignore_dirs, en_result,
             en_exts>>

vars == <<mm_vars, sf_vars, gui_vars, cli_vars, en_vars>>

(***************************************************************************)
(* The inputs of the matcher experiment.                                   *)
(***************************************************************************)
TextAlphabet == {"a", "A", "b", "e^"}

TermPool == {<<"a">>, <<"a", "b">>, <<"e">>, <<".", "b">>, <<"(">>}

FuzzyThresholds == {50, 78}

MatchConfigs ==
    {MatchConfig(CONTAINS, cs, ia, 78, FALSE) : cs \in BOOLEAN, ia \in BOOLEAN}
    \cup {MatchConfig(FUZZY, cs[1], cs[2], th, FALSE) :
             cs \in BOOLEAN \X BOOLEAN, th \in FuzzyThresholds}
    \cup {MatchConfig(REGEX, cs, ia, 78, FALSE) : cs \in BOOLEAN, ia \in BOOLEAN}

(***************************************************************************)
(* The desktop front end: the form, the window's state after __init__.     *)
(***************************************************************************)
Form(path, query, mode, match, case, accents, recursive, exts, all_examples, max_examples, limit_size, max_mb) ==
    [path_var |-> path, query_var |-> query, mode_var |-> mode,
     match_var |-> match, case_var |-> case, accents_var |-> accents,
     recursive_var |-> recursive, exts_var |-> exts,
     all_examples_var |-> all_examples, max_examples_var |-> max_examples,
     limit_size_var |-> limit_size, max_mb_var |-> max_mb]

\* the form as _build_search_tab leaves it
InitialForm ==
    Form(<<>>, <<>>, "content", "contains", FALSE, TRUE, TRUE, <<>>, TRUE, 3, TRUE, 50)

\* _run_scan's locals before it has assigned them
NoLocals ==
    [base |-> <<>>, mode |-> "", queries |-> <<>>, cfg |-> DefaultConfig,
     recursive |-> FALSE, exts |-> NoExts, max_examples |-> None,
     max_mb |-> None]

Summary(label, n) == [label |-> label, n |-> n]

WindowInit ==
    /\ scan_thread = "None"
    /\ stop_flag = FALSE
    /\ is_scanning = FALSE
    /\ form_enabled = TRUE
    /\ export_enabled = FALSE
    /\ badge_var = "Pronto"
    /\ res_summary = Summary("Sem resultados.", 0)
    /\ scan_total = 0
    /\ scan_done = 0
    /\ last_mode = "None"
    /\ last_hits_names = <<>>
    /\ last_hits_content = <<>>
    /\ messagebox = ""
    /\ after_queue = <<>>
    /\ w_pc = "none"
    /\ w = NoLocals
    /\ w_total = 0
    /\ w_done = 0
    /\ w_hits = <<>>
    /\ w_pos = 0
    /\ threads_alive = 0

GuiIdle ==
    /\ fs = <<>>
    /\ form = InitialForm
    /\ WindowInit

\* the command line of cli_main, or the answers given to interactive_main
Args(interactive, path, mode, query, match, recursive, case, no_accents, fuzzy_threshold, dotall, exts, all_exts, max_mb, examples_all, examples, show_examples) ==
    [interactive |-> interactive, path |-> path, mode |-> mode,
     query |-> query, match |-> match, recursive |-> recursive,
     case |-> case, no_accents |-> no_accents,
     fuzzy_threshold |-> fuzzy_threshold, dotall |-> dotall, exts |-> exts,
     all_exts |-> all_exts, max_mb |-> max_mb,
     examples_all |-> examples_all, examples |-> examples,
     show_examples |-> show_examples]

\* argparse's defaults
DefaultArgs ==
    Args(FALSE, <<>>, "files", <<>>, "contains", FALSE, FALSE, FALSE, 78, FALSE, <<".", "d", "a", "t">>, FALSE, 50, TRUE, 0, TRUE)

CliIdle ==
    /\ cli_pc = "off"
    /\ cli_args = DefaultArgs
    /\ cli_l = NoLocals
    /\ cli_total = 0
    /\ cli_done = 0
    /\ cli_hits = <<>>
    /\ cli_ret = None

\* no extensions were given: the enumerator is not asked for files by
\* extension
NoExtsGiven == [frontend |-> "none", all_exts |-> FALSE, raw |-> <<>>]

EnIdle ==
    /\ en_pc = "off"
    /\ en_tree = <<>>
    /\ en_base = <<>>
    /\ en_recursive = FALSE
    /\ en_ignore_dirs = {}
    /\ en_result = <<>>
    /\ en_exts = NoExtsGiven

NoResult == [hit |-> NoHit, opened |-> FALSE, lines_read |-> FALSE]

SfIdle ==
    /\ sf_pc = "off"
    /\ sf_file = File(<<>>, <<"nl">>, 0, "none")
    /\ sf_matcher = [queries |-> <<>>, cfg |-> DefaultConfig]
    /\ sf_max_examples = None
    /\ sf_max_file_size_mb = None
    /\ sf_result = NoResult

MmIdle ==
    /\ mm_pc = "off"
    /\ mm_queries = <<>>
    /\ mm_base_cfg = DefaultConfig
    /\ mm_text = <<>>
    /\ mm_result = FALSE

MatchInit ==
    /\ mm_pc = "input"
    /\ mm_queries \in ListsUpTo(TermPool, MaxTerms)
    /\ mm_base_cfg \in MatchConfigs
    /\ mm_text = <<>>
    /\ mm_result = FALSE
    /\ SfIdle
    /\ GuiIdle
    /\ CliIdle
    /\ EnIdle

\* matcher = build_multi_matcher(queries, base_cfg) returns a predicate
BuildMatcher ==
    /\ mm_pc = "input"
    /\ ~multi_matcher_raises(mm_queries, mm_base_cfg)
    /\ mm_pc' = "built"
    /\ UNCHANGED <<mm_queries, mm_base_cfg, mm_text, mm_result>>
    /\ UNCHANGED <<sf_vars, gui_vars, cli_vars, en_vars>>

\* matcher = build_multi_matcher(queries, base_cfg) raises re.error
BuildMatcherRaises ==
    /\ mm_pc = "input"
    /\ multi_matcher_raises(mm_queries, mm_base_cfg)
    /\ mm_pc' = "raised"
    /\ UNCHANGED <<mm_queries, mm_base_cfg, mm_text, mm_result>>
    /\ UNCHANGED <<sf_vars, gui_vars, cli_vars, en_vars>>

\* matcher(text)
ApplyMatcher ==
    /\ mm_pc = "built"
    /\ \E t \in TextsUpTo(TextAlphabet, MaxTextLen) :
          /\ mm_text' = t
          /\ mm_result' = multi_matcher(mm_queries, mm_base_cfg, t)
    /\ mm_pc' = "applied"
    /\ UNCHANGED <<mm_queries, mm_base_cfg>>
    /\ UNCHANGED <<sf_vars, gui_vars, cli_vars, en_vars>>

MatchNext == BuildMatcher \/ BuildMatcherRaises \/ ApplyMatcher

SpecMatch == MatchInit /\ [][MatchNext]_vars

(***************************************************************************)
(* C1: whenever build_multi_matcher returned a predicate and it was        *)
(* applied to a text, its answer is true exactly when, for every term of   *)
(* the list, the single-term matcher built from the same configuration     *)
(* with that term as the query is true on the same text.                   *)
(***************************************************************************)
C1_CompositeIsConjunction ==
    mm_pc = "applied" =>
        (mm_result <=> \A i \in 1..Len(mm_queries) :
                          /\ ~single_matcher_raises(mm_queries[i], mm_base_cfg)
                          /\ single_matcher(mm_queries[i], mm_base_cfg, mm_text))

\* a two-term list whose first term matches the text and whose second does
\* not: the composite has answered no
C1_Witness ==
    /\ mm_pc = "applied"
    /\ Len(mm_queries) = 2
    /\ single_matcher(mm_queries[1], mm_base_cfg, mm_text)
    /\ ~single_matcher(mm_queries[2], mm_base_cfg, mm_text)
    /\ ~mm_result

(***************************************************************************)
(* The inputs of the scan_file_content experiment.                         *)
(***************************************************************************)
LinePool == {<<"a", "nl">>, <<"b", "nl">>, <<"nul", "nl">>}

IoErrors == {"none", "stat", "open", "read"}

\* the length of the run of a long file: 1 MiB of lines
RunLength == 1024 * 1024

SmallFiles ==
    {File(h, <<"nl">>, 0, e) : h \in TextsUpTo(LinePool, MaxLines), e \in IoErrors}

BigFiles ==
    {File(h, r, RunLength, "none") :
        h \in TextsUpTo(LinePool, 1), r \in {<<"nl">>, <<"a", "nl">>}}

ScanMatchers ==
    {[queries |-> <<(<<"a">>)>>, cfg |-> DefaultConfig],
     [queries |-> <<(<<"a">>), (<<"b">>)>>, cfg |-> DefaultConfig],
     [queries |-> <<(<<".">>)>>, cfg |-> MatchConfig(REGEX, FALSE, FALSE, 78, FALSE)],
     [queries |-> <<(<<".">>)>>, cfg |-> MatchConfig(REGEX, FALSE, FALSE, 78, TRUE)]}

\* max_examples: unbounded, none, small counts, and the largest count
\* interactive_main passes, min(200000, n)
MaxExamplesChoices == {None, 0, 1, 2, 200000}

MaxFileSizeChoices == {None, 0, 1, 2}

FileInit ==
    /\ sf_pc = "input"
    /\ sf_file \in SmallFiles \cup BigFiles
    /\ sf_matcher \in ScanMatchers
    /\ sf_max_examples \in MaxExamplesChoices
    /\ sf_max_file_size_mb \in MaxFileSizeChoices
    /\ sf_result = NoResult
    /\ MmIdle
    /\ GuiIdle
    /\ CliIdle
    /\ EnIdle

\* hit = scan_file_content(p, matcher, max_examples, max_file_size_mb)
ScanFile ==
    /\ sf_pc = "input"
    /\ sf_result' = scan_file_content(<<>>, sf_file, sf_matcher.queries,
                                      sf_matcher.cfg, sf_max_examples,
                                      sf_max_file_size_mb)
    /\ sf_pc' = "returned"
    /\ UNCHANGED <<sf_file, sf_matcher, sf_max_examples, sf_max_file_size_mb>>
    /\ UNCHANGED <<mm_vars, gui_vars, cli_vars, en_vars>>

FileNext == ScanFile

SpecFile == FileInit /\ [][FileNext]_vars

\* the number of lines of the file on which the matcher is true
MatchingLines(f, m) ==
    Cardinality({i \in 1..Len(f.head) : multi_matcher(m.queries, m.cfg, f.head[i])})
    + (IF f.rep_count > 0 /\ multi_matcher(m.queries, m.cfg, f.rep)
       THEN f.rep_count ELSE 0)

\* the number of examples of a ContentHit
NumExamples(hit) == Len(hit.examples.list) + hit.examples.rep_n

(***************************************************************************)
(* C8: scan_file_content never returns a ContentHit whose matches_count is *)
(* 0.  It returns None when no line satisfies the matcher; every hit it    *)
(* returns carries the number of lines on which the matcher is true; and   *)
(* when it read the lines to the end and some line matched it returns a    *)
(* hit.                                                                    *)
(***************************************************************************)
C8_NoEmptyHit ==
    sf_pc = "returned" =>
        LET n == MatchingLines(sf_file, sf_matcher)
        IN  /\ sf_result.hit.kind = "ContentHit" =>
                  /\ sf_result.hit.matches_count > 0
                  /\ sf_result.hit.matches_count = n
            /\ n = 0 => sf_result.hit = NoHit
            /\ (n > 0 /\ sf_result.lines_read /\ sf_file.io_error = "none")
                  => sf_result.hit.kind = "ContentHit"

\* a file of two lines read to its end, one of which matches: a hit that
\* counts 1
C8_Witness ==
    /\ sf_pc = "returned"
    /\ sf_result.lines_read
    /\ sf_file.io_error = "none"
    /\ Len(sf_file.head) = 2
    /\ MatchingLines(sf_file, sf_matcher) = 1
    /\ sf_result.hit.kind = "ContentHit"
    /\ sf_result.hit.matches_count = 1

(***************************************************************************)
(* C9: with max_examples = 0 every hit scan_file_content returns has no    *)
(* examples and still counts every matching line.                          *)
(***************************************************************************)
C9_ZeroExamples ==
    (sf_pc = "returned" /\ sf_max_examples = 0 /\ sf_result.hit.kind = "ContentHit") =>
        /\ sf_result.hit.examples.list = <<>>
        /\ sf_result.hit.examples.rep_n = 0
        /\ sf_result.hit.matches_count = MatchingLines(sf_file, sf_matcher)
        /\ sf_result.hit.matches_count > 0

\* max_examples = 0 and a file with two matching lines: a hit with
\* matches_count = 2 and no examples
C9_Witness ==
    /\ sf_pc = "returned"
    /\ sf_max_examples = 0
    /\ sf_result.hit.kind = "ContentHit"
    /\ sf_result.hit.matches_count = 2
    /\ NumExamples(sf_result.hit) = 0

(***************************************************************************)
(* C10: with a size ceiling configured, a file whose size in bytes exceeds *)
(* the ceiling in MiB is neither opened nor read, and scan_file_content    *)
(* returns None for it, so it is in no result list.                        *)
(***************************************************************************)
C10_OversizeNeverRead ==
    (/\ sf_pc = "returned"
     /\ sf_max_file_size_mb # None
     /\ st_size(sf_file) > sf_max_file_size_mb * 1024 * 1024) =>
        /\ ~sf_result.opened
        /\ ~sf_result.lines_read
        /\ sf_result.hit = NoHit

\* a readable text file of more than 1 MiB whose every line matches, with
\* a ceiling of 1 MiB: skipped unopened
C10_Witness ==
    /\ sf_pc = "returned"
    /\ sf_max_file_size_mb = 1
    /\ st_size(sf_file) > 1024 * 1024
    /\ sf_file.io_error = "none"
    /\ MatchingLines(sf_file, sf_matcher) > RunLength
    /\ ~sf_result.opened
    /\ sf_result.hit = NoHit

(***************************************************************************)
(* The desktop front end: the filesystems and the forms of the model.      *)
(***************************************************************************)
TextFile(head) == File(head, <<"nl">>, 0, "none")

\* the tree under the directory d: two matching files, a file that fails
\* with the error e, an ignored directory and a subdirectory
Tree(e) ==
    << DirEntry(<<"d">>,
         << FileEntry(<<"a", ".", "b">>, TextFile(<< <<"a", "nl">> >>)),
            DirEntry(<<".", "g", "i", "t">>,
                << FileEntry(<<"a">>, TextFile(<< <<"a", "nl">> >>)) >>),
            FileEntry(<<"b">>, File(<< <<"a", "nl">> >>, <<"nl">>, 0, e)),
            DirEntry(<<"a", "b">>,
                << FileEntry(<<"A", ".", "b">>,
                             TextFile(<< <<"a", "nl">>, <<"a", "nl">> >>)) >>),
            FileEntry(<<"a">>, TextFile(<< <<"b", "nl">>, <<"a", "nl">> >>)) >>) >>

FsPool == {Tree(e) : e \in {"stat", "open", "read"}}

BasePath == << <<"d">> >>
FilePath == << <<"d">>, <<"a">> >>
MissingPath == << <<"x">> >>

Forms ==
    {Form(BasePath, <<"a">>, "files", "contains", FALSE, TRUE, FALSE, <<>>, TRUE, 3, TRUE, 50),
     Form(BasePath, <<"{", "a", "}">>, "folders", "fuzzy", FALSE, TRUE, TRUE, <<>>, TRUE, 3, TRUE, 50),
     Form(BasePath, <<"a">>, "content", "contains", FALSE, TRUE, TRUE, <<>>, TRUE, 3, TRUE, 50),
     Form(BasePath, <<"a", ",", " ", ".">>, "content", "regex", TRUE, FALSE, TRUE, <<"B">>, FALSE, 1, TRUE, 0),
     Form(BasePath, <<"a", ",", "(">>, "content", "regex", FALSE, FALSE, TRUE, <<>>, TRUE, 3, TRUE, 50),
     Form(BasePath, <<"(">>, "files", "regex", FALSE, FALSE, TRUE, <<>>, TRUE, 3, TRUE, 50),
     Form(FilePath, <<"a">>, "content", "contains", FALSE, TRUE, TRUE, <<>>, FALSE, 0, FALSE, 50),
     Form(MissingPath, <<"a">>, "files", "contains", FALSE, TRUE, TRUE, <<>>, TRUE, 3, TRUE, 50),
     Form(MissingPath, <<"(">>, "content", "regex", FALSE, FALSE, TRUE, <<>>, TRUE, 3, TRUE, 50),
     Form(<<>>, <<"a">>, "content", "contains", FALSE, TRUE, TRUE, <<>>, TRUE, 3, TRUE, 50),
     Form(MissingPath, <<" ">>, "content", "contains", FALSE, TRUE, TRUE, <<>>, TRUE, 3, TRUE, 50)}

GuiInit ==
    /\ fs \in FsPool
    /\ form \in Forms
    /\ WindowInit
    /\ CliIdle
    /\ EnIdle
    /\ MmIdle
    /\ SfIdle

(***************************************************************************)
(* The user.  A modal error dialog is closed before the user does anything *)
(* else; Scan can be clicked while it is enabled, Stop while it is.        *)
(***************************************************************************)
\* the user closes the error dialog
CloseDialog ==
    /\ messagebox # ""
    /\ messagebox' = ""
    /\ UNCHANGED <<form, scan_thread, stop_flag, is_scanning, form_enabled,
                   export_enabled, badge_var, res_summary, scan_total,
                   scan_done, last_mode, last_hits_names, last_hits_content>>
    /\ UNCHANGED <<fs, after_queue, worker_vars, threads_alive>>
    /\ UNCHANGED <<mm_vars, sf_vars, cli_vars, en_vars>>

\* the desktop front end is what was started
Window == cli_pc = "off"

\* the user fills in the form
EditForm ==
    /\ Window
    /\ form_enabled
    /\ messagebox = ""
    /\ form' \in Forms \ {form}
    /\ UNCHANGED <<scan_thread, stop_flag, is_scanning, form_enabled,
                   export_enabled, badge_var, res_summary, scan_total,
                   scan_done, last_mode, last_hits_names, last_hits_content,
                   messagebox>>
    /\ UNCHANGED <<fs, after_queue, worker_vars, threads_alive>>
    /\ UNCHANGED <<mm_vars, sf_vars, cli_vars, en_vars>>

\* a mutant of start_scan's first test: a running worker is not looked for
thread_is_alive_unchecked == FALSE

\* self._scan_thread and self._scan_thread.is_alive()
thread_is_alive == scan_thread # "None" /\ w_pc # "dead"

\* a mutant of the path test: every path is taken to exist
base_exists_unchecked(tree, path) == TRUE

\* base.exists()
base_exists(tree, path) == exists(tree, path)

\* a mutant of start_scan: self._stop_flag is not reset
start_scan_keeps_flag ==
    /\ Window
    /\ form_enabled
    /\ messagebox = ""
    /\ IF thread_is_alive
       THEN UNCHANGED <<ui_vars, worker_vars, threads_alive>>
       ELSE IF form.path_var = <<>>
       THEN /\ messagebox' = "Informe um caminho (arquivo ou pasta)."
            /\ UNCHANGED <<form, scan_thread, stop_flag, is_scanning,
                           form_enabled, export_enabled, badge_var,
                           res_summary, scan_total, scan_done, last_mode,
                           last_hits_names, last_hits_content>>
            /\ UNCHANGED <<worker_vars, threads_alive>>
       ELSE IF strip(form.query_var) = <<>>
       THEN /\ messagebox' = "Informe os termos de busca."
            /\ UNCHANGED <<form, scan_thread, stop_flag, is_scanning,
                           form_enabled, export_enabled, badge_var,
                           res_summary, scan_total, scan_done, last_mode,
                           last_hits_names, last_hits_content>>
            /\ UNCHANGED <<worker_vars, threads_alive>>
       ELSE IF ~base_exists(fs, form.path_var)
       THEN /\ messagebox' = "Esse caminho nao existe."
            /\ UNCHANGED <<form, scan_thread, stop_flag, is_scanning,
                           form_enabled, export_enabled, badge_var,
                           res_summary, scan_total, scan_done, last_mode,
                           last_hits_names, last_hits_content>>
            /\ UNCHANGED <<worker_vars, threads_alive>>
       ELSE /\ res_summary' = Summary("Sem resultados.", 0)
            /\ stop_flag' = stop_flag
            /\ is_scanning' = TRUE
            /\ badge_var' = "Preparando"
            /\ scan_total' = 0
            /\ scan_done' = 0
            /\ form_enabled' = FALSE
            /\ export_enabled' = FALSE
            /\ scan_thread' = "Thread"
            /\ w_pc' = "setup"
            /\ w' = NoLocals
            /\ w_total' = 0
            /\ w_done' = 0
            /\ w_hits' = <<>>
            /\ w_pos' = 0
            /\ threads_alive' = threads_alive + 1
            /\ UNCHANGED <<form, last_mode, last_hits_names,
                           last_hits_content, messagebox>>
    /\ UNCHANGED <<fs, after_queue>>
    /\ UNCHANGED <<mm_vars, sf_vars, cli_vars, en_vars>>

\* start_scan, the command of the Scan button
start_scan ==
    /\ Window
    /\ form_enabled
    /\ messagebox = ""
    /\ IF thread_is_alive
       THEN UNCHANGED <<ui_vars, worker_vars, threads_alive>>
       ELSE IF form.path_var = <<>>
       THEN /\ messagebox' = "Informe um caminho (arquivo ou pasta)."
            /\ UNCHANGED <<form, scan_thread, stop_flag, is_scanning,
                           form_enabled, export_enabled, badge_var,
                           res_summary, scan_total, scan_done, last_mode,
                           last_hits_names, last_hits_content>>
            /\ UNCHANGED <<worker_vars, threads_alive>>
       ELSE IF strip(form.query_var) = <<>>
       THEN /\ messagebox' = "Informe os termos de busca."
            /\ UNCHANGED <<form, scan_thread, stop_flag, is_scanning,
                           form_enabled, export_enabled, badge_var,
                           res_summary, scan_total, scan_done, last_mode,
                           last_hits_names, last_hits_content>>
            /\ UNCHANGED <<worker_vars, threads_alive>>
       ELSE IF ~base_exists(fs, form.path_var)
       THEN /\ messagebox' = "Esse caminho nao existe."
            /\ UNCHANGED <<form, scan_thread, stop_flag, is_scanning,
                           form_enabled, export_enabled, badge_var,
                           res_summary, scan_total, scan_done, last_mode,
                           last_hits_names, last_hits_content>>
            /\ UNCHANGED <<worker_vars, threads_alive>>
       ELSE /\ res_summary' = Summary("Sem resultados.", 0)
            /\ stop_flag' = FALSE
            /\ is_scanning' = TRUE
            /\ badge_var' = "Preparando"
            /\ scan_total' = 0
            /\ scan_done' = 0
            /\ form_enabled' = FALSE
            /\ export_enabled' = FALSE
            /\ scan_thread' = "Thread"
            /\ w_pc' = "setup"
            /\ w' = NoLocals
            /\ w_total' = 0
            /\ w_done' = 0
            /\ w_hits' = <<>>
            /\ w_pos' = 0
            /\ threads_alive' = threads_alive + 1
            /\ UNCHANGED <<form, last_mode, last_hits_names,
                           last_hits_content, messagebox>>
    /\ UNCHANGED <<fs, after_queue>>
    /\ UNCHANGED <<mm_vars, sf_vars, cli_vars, en_vars>>

\* stop_scan, the command of the Stop button
stop_scan ==
    /\ Window
    /\ ~form_enabled
    /\ messagebox = ""
    /\ stop_flag' = TRUE
    /\ badge_var' = "Parando"
    /\ UNCHANGED <<form, scan_thread, is_scanning, form_enabled,
                   export_enabled, res_summary, scan_total, scan_done,
                   last_mode, last_hits_names, last_hits_content, messagebox>>
    /\ UNCHANGED <<fs, after_queue, worker_vars, threads_alive>>
    /\ UNCHANGED <<mm_vars, sf_vars, cli_vars, en_vars>>

(***************************************************************************)
(* The worker thread: _run_scan.  Its steps are                            *)
(*   "setup"    read the form, parse the query, build the matcher          *)
(*   "count"    the pre-count pass and the first progress callback         *)
(*   "loop"     one turn of the scan loop                                  *)
(*   "finish"   read the stop flag and queue the results                   *)
(*   "except"   queue the error dialog                                     *)
(*   "finally"  queue _ui_done                                             *)
(*   "exit"     the thread ends                                            *)
(***************************************************************************)
MatchMap(match_ui) ==
    IF match_ui = "fuzzy" THEN FUZZY
    ELSE IF match_ui = "regex" THEN REGEX
    ELSE CONTAINS

\* the locals _run_scan computes from the form
ReadForm(tree, f) ==
    LET match_mode == MatchMap(f.match_var)
        parsed == parse_exts(strip(f.exts_var))
    IN  [base |-> f.path_var,
         mode |-> f.mode_var,
         queries |-> parse_queries(strip(f.query_var)),
         cfg |-> MatchConfig(match_mode, f.case_var,
                             IF match_mode # REGEX THEN f.accents_var ELSE FALSE,
                             78, FALSE),
         recursive |-> IF is_dir(tree, f.path_var) THEN f.recursive_var ELSE FALSE,
         exts |-> IF strip(f.exts_var) # <<>> /\ parsed # {}
                  THEN Exts(parsed) ELSE NoExts,
         max_examples |-> IF f.all_examples_var THEN None ELSE f.max_examples_var,
         max_mb |-> IF f.limit_size_var
                    THEN (IF f.max_mb_var <= 0 THEN None ELSE f.max_mb_var)
                    ELSE None]

\* the candidates of the scan the locals describe, in enumeration order:
\* (path, kind) pairs for a name scan, paths for a content scan
Candidates(tree, l) ==
    IF l.mode \in {"folders", "files"}
    THEN iter_name_candidates(tree, l.base, l.recursive, DEFAULT_IGNORE_DIRS,
                              l.mode = "folders", l.mode = "files")
    ELSE iter_content_candidates(tree, l.base, l.recursive, DEFAULT_IGNORE_DIRS,
                                 l.exts)

\* the callbacks the worker queues
SetProgressCb(total) == [type |-> "set_progress", total |-> total]
ProgressCb(done, total) == [type |-> "progress", done |-> done, total |-> total]
FinishCb(mode, hits, stopped) ==
    [type |-> "finish", mode |-> mode, hits |-> hits, stopped |-> stopped]
ShowErrorCb == [type |-> "showerror"]
DoneCb == [type |-> "done"]

WorkerSetup ==
    /\ w_pc = "setup"
    /\ LET l == ReadForm(fs, form)
       IN  /\ w' = l
           /\ w_pc' = IF multi_matcher_raises(l.queries, l.cfg)
                      THEN "except" ELSE "count"
    /\ UNCHANGED <<w_total, w_done, w_hits, w_pos>>
    /\ UNCHANGED <<fs, ui_vars, after_queue, threads_alive>>
    /\ UNCHANGED <<mm_vars, sf_vars, cli_vars, en_vars>>

WorkerCount ==
    /\ w_pc = "count"
    /\ w_total' = count_iter(Candidates(fs, w))
    /\ after_queue' = Append(after_queue, SetProgressCb(w_total'))
    /\ w_hits' = <<>>
    /\ w_done' = 0
    /\ w_pos' = 0
    /\ w_pc' = "loop"
    /\ UNCHANGED w
    /\ UNCHANGED <<fs, ui_vars, threads_alive>>
    /\ UNCHANGED <<mm_vars, sf_vars, cli_vars, en_vars>>

\* a mutant of the cancellation test: the flag is looked at only after the
\* first candidate
stop_requested_late(flag, done) == flag /\ done > 0

\* if self._stop_flag: break
stop_requested(flag, done) == flag

\* hits.append(hit) unless hit is None; an exception leaves the loop
AppendHit(hit, hits) ==
    IF hit = Raised THEN [raised |-> TRUE, hits |-> hits]
    ELSE IF hit # NoHit THEN [raised |-> FALSE, hits |-> Append(hits, hit)]
    ELSE [raised |-> FALSE, hits |-> hits]

\* hits after the loop body has handled the candidate c: the NameHit of a
\* matching name, the ContentHit of a file, or an exception
HandleCandidate(tree, l, c, hits) ==
    IF l.mode \in {"folders", "files"}
    THEN AppendHit(IF multi_matcher(l.queries, l.cfg, PathName(c[1]))
                   THEN NameHit(c[1], c[2]) ELSE NoHit, hits)
    ELSE AppendHit(scan_file_content(c, FileAt(tree, c), l.queries, l.cfg,
                                     l.max_examples, l.max_mb).hit, hits)

\* the scan loop's turn once the candidate is handled: progress is
\* reported when done == total or 0.15 s have passed since the last report
LoopBody(r) ==
    IF r.raised
    THEN /\ w_pc' = "except"
         /\ w_pos' = w_pos + 1
         /\ UNCHANGED <<w_done, w_hits, after_queue>>
    ELSE /\ w_hits' = r.hits
         /\ w_done' = w_done + 1
         /\ w_pos' = w_pos + 1
         /\ w_pc' = "loop"
         /\ \E due \in BOOLEAN :
               after_queue' =
                   IF w_done' = w_total \/ due
                   THEN Append(after_queue, ProgressCb(w_done', w_total))
                   ELSE after_queue

\* a turn of the scan loop over cands: the iterator ends, or the stop flag
\* breaks the loop, or the candidate is handled
LoopTurn(cands) ==
    IF w_pos >= Len(cands)
    THEN /\ w_pc' = "finish"
         /\ UNCHANGED <<w_done, w_hits, w_pos, after_queue>>
    ELSE IF stop_requested(stop_flag, w_done)
    THEN /\ w_pc' = "finish"
         /\ w_pos' = w_pos + 1
         /\ UNCHANGED <<w_done, w_hits, after_queue>>
    ELSE LoopBody(HandleCandidate(fs, w, cands[w_pos + 1], w_hits))

WorkerLoop ==
    /\ w_pc = "loop"
    /\ LoopTurn(Candidates(fs, w))
    /\ UNCHANGED <<w, w_total>>
    /\ UNCHANGED <<fs, ui_vars, threads_alive>>
    /\ UNCHANGED <<mm_vars, sf_vars, cli_vars, en_vars>>

\* self._ui_finish_names / self._ui_finish_content(..., stopped=self._stop_flag)
WorkerFinish ==
    /\ w_pc = "finish"
    /\ after_queue' = Append(after_queue, FinishCb(w.mode, w_hits, stop_flag))
    /\ w_pc' = "finally"
    /\ UNCHANGED <<w, w_total, w_done, w_hits, w_pos>>
    /\ UNCHANGED <<fs, ui_vars, threads_alive>>
    /\ UNCHANGED <<mm_vars, sf_vars, cli_vars, en_vars>>

\* a mutant of the worker's error path: the handoff is queued at the end
\* of the try body and not in a finally clause, so an exception skips it
WorkerExcept_skips_handoff ==
    /\ w_pc = "except"
    /\ after_queue' = Append(after_queue, ShowErrorCb)
    /\ w_pc' = "exit"
    /\ UNCHANGED <<w, w_total, w_done, w_hits, w_pos>>
    /\ UNCHANGED <<fs, ui_vars, threads_alive>>
    /\ UNCHANGED <<mm_vars, sf_vars, cli_vars, en_vars>>

\* except Exception as e: self.after(0, lambda: messagebox.showerror(...))
WorkerExcept ==
    /\ w_pc = "except"
    /\ after_queue' = Append(after_queue, ShowErrorCb)
    /\ w_pc' = "finally"
    /\ UNCHANGED <<w, w_total, w_done, w_hits, w_pos>>
    /\ UNCHANGED <<fs, ui_vars, threads_alive>>
    /\ UNCHANGED <<mm_vars, sf_vars, cli_vars, en_vars>>

\* the except clause, if it ran, has ended and e is unbound;
\* finally: self.after(0, self._ui_done)
WorkerFinally ==
    /\ w_pc = "finally"
    /\ after_queue' = Append(after_queue, DoneCb)
    /\ w_pc' = "exit"
    /\ UNCHANGED <<w, w_total, w_done, w_hits, w_pos>>
    /\ UNCHANGED <<fs, ui_vars, threads_alive>>
    /\ UNCHANGED <<mm_vars, sf_vars, cli_vars, en_vars>>

\* _run_scan has returned: the thread is no longer alive
WorkerExit ==
    /\ w_pc = "exit"
    /\ w_pc' = "dead"
    /\ threads_alive' = threads_alive - 1
    /\ UNCHANGED <<w, w_total, w_done, w_hits, w_pos>>
    /\ UNCHANGED <<fs, ui_vars, after_queue>>
    /\ UNCHANGED <<mm_vars, sf_vars, cli_vars, en_vars>>

(***************************************************************************)
(* The event loop runs the queued callbacks in order.                      *)
(***************************************************************************)
\* _ui_set_progress's callback
UiSetProgress(cb) ==
    /\ scan_total' = cb.total
    /\ scan_done' = 0
    /\ badge_var' = "Escaneando"
    /\ UNCHANGED <<form, scan_thread, stop_flag, is_scanning, form_enabled,
                   export_enabled, res_summary, last_mode, last_hits_names,
                   last_hits_content, messagebox>>

\* _ui_progress's callback
UiProgress(cb) ==
    /\ scan_done' = cb.done
    /\ scan_total' = cb.total
    /\ UNCHANGED <<form, scan_thread, stop_flag, is_scanning, form_enabled,
                   export_enabled, badge_var, res_summary, last_mode,
                   last_hits_names, last_hits_content, messagebox>>

\* _ui_finish_names's and _ui_finish_content's callbacks
UiFinish(cb) ==
    /\ last_mode' = cb.mode
    /\ IF cb.mode \in {"folders", "files"}
       THEN last_hits_names' = cb.hits /\ last_hits_content' = <<>>
       ELSE last_hits_content' = cb.hits /\ last_hits_names' = <<>>
    /\ res_summary' = Summary(IF cb.stopped THEN "Parado" ELSE "Concluido",
                               Len(cb.hits))
    /\ UNCHANGED <<form, scan_thread, stop_flag, is_scanning, form_enabled,
                   export_enabled, badge_var, scan_total, scan_done, messagebox>>

\* the callback of the except clause: messagebox.showerror("Erro", str(e)).
\* The lambda reads e, the name the except clause binds and unbinds when it
\* ends: run while the worker is still in the clause the callback shows
\* the dialog, run later str(e) raises NameError, which Tk reports on
\* stderr, and no dialog is shown.
UiShowError ==
    /\ messagebox' = IF w_pc = "finally" THEN "Erro" ELSE messagebox
    /\ UNCHANGED <<form, scan_thread, stop_flag, is_scanning, form_enabled,
                   export_enabled, badge_var, res_summary, scan_total,
                   scan_done, last_mode, last_hits_names, last_hits_content>>

\* _ui_done
UiDone ==
    /\ is_scanning' = FALSE
    /\ badge_var' = IF ~stop_flag THEN "Pronto" ELSE "Parado"
    /\ form_enabled' = TRUE
    /\ export_enabled' = (last_hits_names # <<>> \/ last_hits_content # <<>>)
    /\ UNCHANGED <<form, scan_thread, stop_flag, res_summary, scan_total,
                   scan_done, last_mode, last_hits_names, last_hits_content,
                   messagebox>>

RunCallback ==
    /\ after_queue # <<>>
    /\ after_queue' = Tail(after_queue)
    /\ LET cb == Head(after_queue) IN
       CASE cb.type = "set_progress" -> UiSetProgress(cb)
         [] cb.type = "progress" -> UiProgress(cb)
         [] cb.type = "finish" -> UiFinish(cb)
         [] cb.type = "showerror" -> UiShowError
         [] cb.type = "done" -> UiDone
    /\ UNCHANGED <<fs, worker_vars, threads_alive>>
    /\ UNCHANGED <<mm_vars, sf_vars, cli_vars, en_vars>>

(***************************************************************************)
(* The console front end: cli_main, and interactive_main when the path,    *)
(* the mode or the query is not on the command line.  Its steps are        *)
(*   "start"     the path test                                             *)
(*   "build"     the query, the configuration and the matcher              *)
(*   "count"     scan_*_with_progress's counting pass                      *)
(*   "scan"      scan_*_with_progress's loop                               *)
(*   "returned"  the front end has returned cli_ret                        *)
(*   "raised"    an exception has left the front end                       *)
(***************************************************************************)
DatExts == Exts({<<".", "d", "a", "t">>})

\* exts as both front ends of the console compute it, ".dat" by default
CliExts(a) ==
    IF a.all_exts THEN NoExts
    ELSE IF parse_exts(a.exts) # {} THEN Exts(parse_exts(a.exts))
    ELSE DatExts

\* the locals the console front end computes from its arguments
CliLocals(tree, a) ==
    LET match_mode == MatchMap(a.match) IN
    [base |-> a.path,
     mode |-> a.mode,
     queries |-> parse_queries(a.query),
     cfg |-> IF a.interactive
             THEN MatchConfig(match_mode, a.case,
                              IF match_mode # REGEX THEN ~a.no_accents ELSE TRUE,
                              IF match_mode = FUZZY
                              THEN Max(50, Min(95, a.fuzzy_threshold)) ELSE 78,
                              match_mode = REGEX /\ a.dotall)
             ELSE MatchConfig(match_mode, a.case,
                              IF match_mode # REGEX THEN ~a.no_accents ELSE FALSE,
                              a.fuzzy_threshold, FALSE),
     recursive |-> IF a.interactive
                   THEN (IF is_dir(tree, a.path) THEN a.recursive ELSE TRUE)
                   ELSE (IF is_dir(tree, a.path) THEN a.recursive ELSE FALSE),
     exts |-> CliExts(a),
     max_examples |->
         IF a.interactive
         THEN (IF ~a.show_examples THEN 0
               ELSE IF a.examples_all \/ a.examples <= 0 THEN None
               ELSE Min(200000, a.examples))
         ELSE (IF a.examples_all THEN None
               ELSE IF a.examples = 0 THEN 0
               ELSE IF a.examples < 0 THEN None ELSE a.examples),
     max_mb |-> IF a.max_mb = 0 THEN None ELSE Max(1, a.max_mb)]

\* if not base.exists(): ui_print("ERRO: ..."); return 2
CliCheckPath ==
    /\ cli_pc = "start"
    /\ IF ~base_exists(fs, cli_args.path)
       THEN cli_pc' = "returned" /\ cli_ret' = 2
       ELSE cli_pc' = "build" /\ cli_ret' = cli_ret
    /\ UNCHANGED <<cli_args, cli_l, cli_total, cli_done, cli_hits>>
    /\ UNCHANGED <<mm_vars, sf_vars, gui_vars, en_vars>>

\* interactive_main's empty-query test, then parse_queries, MatchConfig and
\* build_multi_matcher, whose exception nothing catches
CliBuild ==
    /\ cli_pc = "build"
    /\ IF cli_args.interactive /\ strip(cli_args.query) = <<>>
       THEN /\ cli_pc' = "returned"
            /\ cli_ret' = 2
            /\ cli_l' = cli_l
       ELSE /\ cli_l' = CliLocals(fs, cli_args)
            /\ cli_pc' = IF multi_matcher_raises(cli_l'.queries, cli_l'.cfg)
                         THEN "raised" ELSE "count"
            /\ cli_ret' = cli_ret
    /\ UNCHANGED <<cli_args, cli_total, cli_done, cli_hits>>
    /\ UNCHANGED <<mm_vars, sf_vars, gui_vars, en_vars>>

\* total = count_iter(iter_*_candidates(...))
CliCount ==
    /\ cli_pc = "count"
    /\ cli_total' = count_iter(Candidates(fs, cli_l))
    /\ cli_pc' = "scan"
    /\ UNCHANGED <<cli_args, cli_l, cli_done, cli_hits, cli_ret>>
    /\ UNCHANGED <<mm_vars, sf_vars, gui_vars, en_vars>>

\* the loop's turn once the candidate is handled
CliLoopBody(r) ==
    IF r.raised
    THEN /\ cli_pc' = "raised"
         /\ UNCHANGED <<cli_hits, cli_done, cli_ret>>
    ELSE /\ cli_hits' = r.hits
         /\ cli_done' = cli_done + 1
         /\ UNCHANGED <<cli_pc, cli_ret>>

\* a turn of the loop over cands; after the last, the hits are printed and
\* the front end returns 0
CliLoopTurn(cands) ==
    IF cli_done >= Len(cands)
    THEN /\ cli_pc' = "returned"
         /\ cli_ret' = 0
         /\ UNCHANGED <<cli_hits, cli_done>>
    ELSE CliLoopBody(HandleCandidate(fs, cli_l, cands[cli_done + 1], cli_hits))

\* the loop of scan_names_with_progress or scan_contents_with_progress
CliScan ==
    /\ cli_pc = "scan"
    /\ CliLoopTurn(Candidates(fs, cli_l))
    /\ UNCHANGED <<cli_args, cli_l, cli_total>>
    /\ UNCHANGED <<mm_vars, sf_vars, gui_vars, en_vars>>

\* the command lines and the interactive sessions of the model
CliRequests ==
    {Args(FALSE, BasePath, "files", <<"a">>, "contains", TRUE, FALSE, FALSE, 78, FALSE, <<".", "d", "a", "t">>, FALSE, 50, TRUE, 0, TRUE),
     Args(FALSE, BasePath, "folders", <<"a", "b">>, "fuzzy", FALSE, FALSE, FALSE, 78, FALSE, <<".", "d", "a", "t">>, FALSE, 50, TRUE, 0, TRUE),
     Args(FALSE, BasePath, "content", <<"a">>, "contains", TRUE, FALSE, FALSE, 78, FALSE, <<".", "d", "a", "t">>, TRUE, 50, TRUE, 0, TRUE),
     Args(FALSE, BasePath, "content", <<"a">>, "regex", TRUE, TRUE, FALSE, 78, FALSE, <<"b">>, FALSE, 0, FALSE, 1, TRUE),
     Args(FALSE, BasePath, "content", <<"a", ",", "(">>, "regex", TRUE, FALSE, FALSE, 78, FALSE, <<>>, TRUE, 50, TRUE, 0, TRUE),
     Args(FALSE, BasePath, "files", <<"(">>, "regex", FALSE, FALSE, FALSE, 78, FALSE, <<>>, FALSE, 50, TRUE, 0, TRUE),
     Args(FALSE, MissingPath, "files", <<"a">>, "contains", TRUE, FALSE, FALSE, 78, FALSE, <<>>, FALSE, 50, TRUE, 0, TRUE),
     Args(FALSE, MissingPath, "content", <<"(">>, "regex", TRUE, FALSE, FALSE, 78, FALSE, <<>>, TRUE, 50, TRUE, 0, TRUE),
     Args(FALSE, FilePath, "content", <<"a">>, "contains", FALSE, FALSE, TRUE, 78, FALSE, <<>>, TRUE, 1, FALSE, 0, TRUE),
     Args(FALSE, BasePath, "files", <<" ">>, "contains", FALSE, FALSE, FALSE, 78, FALSE, <<>>, TRUE, 50, TRUE, 0, TRUE),
     Args(TRUE, BasePath, "content", <<"a">>, "contains", TRUE, FALSE, FALSE, 78, FALSE, <<>>, TRUE, 0, TRUE, 0, FALSE),
     Args(TRUE, BasePath, "files", <<"(", ",", "a">>, "regex", TRUE, FALSE, FALSE, 78, TRUE, <<>>, FALSE, 50, TRUE, 0, TRUE),
     Args(TRUE, BasePath, "files", <<" ">>, "contains", TRUE, FALSE, FALSE, 78, FALSE, <<>>, FALSE, 50, TRUE, 0, TRUE),
     Args(TRUE, MissingPath, "content", <<" ">>, "fuzzy", TRUE, FALSE, FALSE, 99, FALSE, <<>>, FALSE, 50, TRUE, 0, TRUE)}

CliInit ==
    /\ fs \in FsPool
    /\ form = InitialForm
    /\ WindowInit
    /\ cli_pc = "start"
    /\ cli_args \in CliRequests
    /\ cli_l = NoLocals
    /\ cli_total = 0
    /\ cli_done = 0
    /\ cli_hits = <<>>
    /\ cli_ret = None
    /\ MmIdle
    /\ SfIdle
    /\ EnIdle

\* the program is started as the desktop window or from the console
Init == GuiInit \/ CliInit

Next ==
    \/ CloseDialog
    \/ EditForm
    \/ start_scan
    \/ stop_scan
    \/ WorkerSetup
    \/ WorkerCount
    \/ WorkerLoop
    \/ WorkerFinish
    \/ WorkerExcept
    \/ WorkerFinally
    \/ WorkerExit
    \/ RunCallback
    \/ CliCheckPath
    \/ CliBuild
    \/ CliCount
    \/ CliScan

Spec == Init /\ [][Next]_vars

(***************************************************************************)
(* What a scan should hand over, stated apart from the loop.               *)
(***************************************************************************)
\* the worker has read the form: w holds the locals of the current scan
LocalsSet == w_pc \notin {"none", "setup"}

\* the worker thread is alive
WorkerAlive == w_pc \in {"setup", "count", "loop", "finish", "except", "finally", "exit"}

\* the scan's regex query has a term that does not compile
BadPattern(queries, cfg) ==
    cfg.mode = REGEX /\ \E i \in 1..Len(queries) : ~re_compiles(queries[i])

\* does the candidate c yield a hit, and which
YieldsHit(tree, l, c) ==
    IF l.mode \in {"folders", "files"}
    THEN multi_matcher(l.queries, l.cfg, PathName(c[1]))
    ELSE scan_file_content(c, FileAt(tree, c), l.queries, l.cfg,
                           l.max_examples, l.max_mb).hit.kind = "ContentHit"

HitOf(tree, l, c) ==
    IF l.mode \in {"folders", "files"}
    THEN NameHit(c[1], c[2])
    ELSE scan_file_content(c, FileAt(tree, c), l.queries, l.cfg,
                           l.max_examples, l.max_mb).hit

\* the hits of the candidates cs, in the order of cs
HitsAmong(tree, l, cs) ==
    LET yielding == SelectSeq(cs, LAMBDA c : YieldsHit(tree, l, c))
    IN  [i \in 1..Len(yielding) |-> HitOf(tree, l, yielding[i])]

\* the hits of the first k candidates of the current scan
HitsOfFirst(k) == HitsAmong(fs, w, SubSeq(Candidates(fs, w), 1, k))

\* the result list the window holds for the mode of the current scan
LastHits ==
    IF w.mode \in {"folders", "files"} THEN last_hits_names ELSE last_hits_content

\* the finish callback of the current scan has run
ResultsShown ==
    /\ w_pc \in {"finally", "exit", "dead"}
    /\ res_summary.label \in {"Parado", "Concluido"}

\* the loop of the current scan was left by the stop flag with
\* candidates remaining
StoppedEarly ==
    /\ LocalsSet
    /\ w_pc \in {"finish", "finally", "exit", "dead"}
    /\ ~BadPattern(w.queries, w.cfg)
    /\ w_done < Len(Candidates(fs, w))

C2_Inv ==
    StoppedEarly =>
        /\ w_hits = HitsOfFirst(w_done)
        /\ w_pc = "finish" => stop_flag
        /\ \A i \in 1..Len(after_queue) :
              after_queue[i].type = "finish" =>
                  /\ after_queue[i].hits = HitsOfFirst(w_done)
                  /\ after_queue[i].stopped
        /\ ResultsShown =>
              /\ LastHits = HitsOfFirst(w_done)
              /\ res_summary = Summary("Parado", Len(HitsOfFirst(w_done)))
        /\ (ResultsShown /\ form_enabled) => badge_var = "Parado"

C2_Step ==
    (w_pc = "loop" /\ stop_flag) =>
        /\ w_done' = w_done
        /\ w_hits' = w_hits
        /\ w_pc' \in {"loop", "finish"}
        /\ w_pc' = "loop" => UNCHANGED worker_vars

\* C2: in a GUI scan, name or content, once the stop flag is seen set
\* after k of n candidates the loop handles no further candidate; the hits
\* queued for the window and then shown are exactly the hits of the first
\* k candidates in enumeration order, and the summary and the badge read
\* "Parado" (stopped), never "Concluido" (completed).
C2_StoppedScanKeepsPrefix == [](C2_Inv) /\ [][C2_Step]_vars

\* a scan stopped after some but not all candidates, with a hit among the
\* first k and a candidate after them that would have been a hit too
C2_Witness ==
    /\ StoppedEarly
    /\ ResultsShown
    /\ w_pc = "dead"
    /\ form_enabled
    /\ w_done > 0
    /\ LastHits # <<>>
    /\ Len(LastHits) < Len(HitsOfFirst(Len(Candidates(fs, w))))

\* C3: at most one scan worker thread is alive at any time, whatever the
\* interleaving of Scan clicks, Stop clicks, worker steps and callbacks.
C3_OneWorker ==
    /\ threads_alive <= 1
    /\ threads_alive = (IF WorkerAlive THEN 1 ELSE 0)

\* _ui_done has re-enabled the Scan button while the worker that queued
\* it has not yet ended: a click here must not start a second worker
C3_Witness ==
    /\ w_pc = "exit"
    /\ form_enabled
    /\ messagebox = ""
    /\ threads_alive = 1

C4_Inv ==
    /\ messagebox = "Esse caminho nao existe." =>
          /\ ~WorkerAlive
          /\ after_queue = <<>>
    /\ (cli_pc \notin {"off", "start"} /\ ~exists(fs, cli_args.path)) =>
          /\ cli_pc = "returned"
          /\ cli_ret = 2
          /\ cli_l = NoLocals
          /\ cli_total = 0 /\ cli_done = 0 /\ cli_hits = <<>>

C4_Step ==
    (start_scan /\ ~exists(fs, form.path_var)) =>
        /\ UNCHANGED <<worker_vars, threads_alive, after_queue>>
        /\ UNCHANGED <<last_mode, last_hits_names, last_hits_content, res_summary>>
        /\ (~WorkerAlive /\ form.path_var # <<>> /\ strip(form.query_var) # <<>>)
              => messagebox' = "Esse caminho nao existe."

\* C4: a Scan click on a form whose path does not exist starts no worker,
\* queues nothing, enumerates nothing and leaves the result lists as they
\* were; with a path and a query typed in and no worker alive the path
\* error dialog is up when the click returns.  The console front end
\* returns 2 from its path test with nothing parsed, counted or scanned.
C4_MissingPathFailsAtOnce == [](C4_Inv) /\ [][C4_Step]_vars

\* the path error dialog after a click on a form with a missing path
C4_Witness ==
    /\ messagebox = "Esse caminho nao existe."
    /\ ~exists(fs, form.path_var)
    /\ form.path_var # <<>>

C5_Inv ==
    /\ (LocalsSet /\ BadPattern(w.queries, w.cfg)) =>
          /\ w_pc \in {"except", "finally", "exit", "dead"}
          /\ w_total = 0 /\ w_done = 0 /\ w_pos = 0 /\ w_hits = <<>>
          /\ \A i \in 1..Len(after_queue) :
                after_queue[i].type \in {"showerror", "done"}
          /\ res_summary.label = "Sem resultados."
          /\ scan_total = 0 /\ scan_done = 0
    /\ BadPattern(cli_l.queries, cli_l.cfg) =>
          /\ cli_pc = "raised"
          /\ cli_ret = None
          /\ cli_total = 0 /\ cli_done = 0 /\ cli_hits = <<>>

C5_Step ==
    /\ (w_pc = "setup" /\ w_pc' # "setup"
          /\ BadPattern(parse_queries(strip(form.query_var)), w'.cfg))
         => w_pc' = "except"
    /\ (w_pc = "except" /\ w_pc' # "except")
         => after_queue' = Append(after_queue, ShowErrorCb)
    /\ (after_queue # <<>> /\ Head(after_queue) = ShowErrorCb
          /\ after_queue' = Tail(after_queue))
         => messagebox' \in {"Erro", messagebox}
    /\ (cli_pc = "build" /\ cli_pc' \notin {"build", "returned"}
          /\ BadPattern(parse_queries(cli_args.query), cli_l'.cfg))
         => cli_pc' = "raised"

\* C5: a regex query with a term that does not compile makes the matcher
\* build raise in the worker's setup: the worker goes to its except
\* clause, which queues the callback of the error dialog, and
\* neither the pre-count nor the scan loop runs - nothing is counted,
\* handled, reported or shown as a result.  In the console front end the
\* exception leaves cli_main or interactive_main before anything is counted.
C5_BadPatternBeforeEnumeration == [](C5_Inv) /\ [][C5_Step]_vars

\* the error dialog of a scan whose second term does not compile
C5_Witness ==
    /\ LocalsSet
    /\ BadPattern(w.queries, w.cfg)
    /\ Len(w.queries) = 2
    /\ re_compiles(w.queries[1])
    /\ messagebox = "Erro"
    /\ w_pc = "dead"

\* C6 as stated: no scan worker runs for a request whose path is missing
\* or whose regex query has a term that does not compile.
C6_ValidatedBeforeWorker ==
    w_pc = "setup" =>
        /\ exists(fs, form.path_var)
        /\ ~BadPattern(parse_queries(strip(form.query_var)),
                       MatchConfig(MatchMap(form.match_var), form.case_var,
                                   FALSE, 78, FALSE))

\* the content scan of the current request ran over all its candidates
ContentScanComplete ==
    /\ LocalsSet
    /\ w.mode = "content"
    /\ ~BadPattern(w.queries, w.cfg)
    /\ w_pc \in {"finish", "finally", "exit", "dead"}
    /\ w_done = Len(Candidates(fs, w))

\* the candidates of the current scan that can be stat'ed, opened and read
Readable(cs) == SelectSeq(cs, LAMBDA c : FileAt(fs, c).io_error = "none")

\* C7: in a content scan a candidate whose stat, open or read fails adds
\* no hit and raises nothing: the worker never reaches its except clause,
\* no error dialog is queued or shown, and a scan that ran to the end
\* holds exactly the hits of the readable candidates, in order; so does
\* the console front end's content scan, which raises nothing either.
C7_BadFileIsSkipped ==
    /\ (LocalsSet /\ w.mode = "content" /\ ~BadPattern(w.queries, w.cfg)) =>
          /\ w_pc # "except"
          /\ messagebox # "Erro"
          /\ \A i \in 1..Len(after_queue) : after_queue[i].type # "showerror"
          /\ ContentScanComplete =>
                w_hits = HitsAmong(fs, w, Readable(Candidates(fs, w)))
          /\ (ContentScanComplete /\ ResultsShown) =>
                last_hits_content = HitsAmong(fs, w, Readable(Candidates(fs, w)))
    /\ (cli_l.mode = "content" /\ ~BadPattern(cli_l.queries, cli_l.cfg)) =>
          /\ cli_pc # "raised"
          /\ (cli_pc = "returned" /\ cli_ret = 0) =>
                cli_hits = HitsAmong(fs, cli_l, Readable(Candidates(fs, cli_l)))

\* a finished content scan over a tree with a matching file that cannot
\* be read, between two files that yield hits
C7_Witness ==
    /\ ContentScanComplete
    /\ ResultsShown
    /\ w_pc = "dead"
    /\ res_summary.label = "Concluido"
    /\ Len(last_hits_content) >= 2
    /\ \E i \in 2..(Len(Candidates(fs, w)) - 1) :
          LET f == FileAt(fs, Candidates(fs, w)[i]) IN
          /\ f.io_error # "none"
          /\ MatchingLines(f, [queries |-> w.queries, cfg |-> w.cfg]) > 0

(***************************************************************************)
(* The size ceiling.                                                       *)
(***************************************************************************)
\* C11 as stated, at scan_file_content: with a ceiling of 0 or no ceiling
\* no file is skipped for its size - the call returns what it returns
\* without a ceiling.
C11_ZeroOrAbsentIsUnlimited ==
    (sf_pc = "returned" /\ sf_max_file_size_mb \in {None, 0}) =>
        sf_result.hit = scan_file_content(<<>>, sf_file, sf_matcher.queries,
                                          sf_matcher.cfg, sf_max_examples,
                                          None).hit

(***************************************************************************)
(* The enumerator on its own: iter_dirs_files over the trees with up to    *)
(* MaxWidth entries under the directory d, each a file or a directory      *)
(* holding one of a few listings up to two levels deep.                    *)
(***************************************************************************)
MaxWidth == 2

GitName == <<".", "g", "i", "t">>

EnNames == {<<"a">>, <<"b">>, GitName}

\* what a directory under d can hold
SubListings ==
    { <<>>,
      << FileEntry(<<"a">>, NoFile) >>,
      << FileEntry(GitName, NoFile) >>,
      << DirEntry(GitName, << FileEntry(<<"a">>, NoFile) >>),
         FileEntry(<<"b">>, NoFile) >>,
      << DirEntry(<<"b">>, << DirEntry(GitName, << FileEntry(<<"a">>, NoFile) >>) >>),
         FileEntry(<<"a">>, NoFile) >> }

TopEntries ==
    {FileEntry(n, NoFile) : n \in EnNames}
    \cup {DirEntry(n, l) : n \in EnNames, l \in SubListings}

\* a directory never holds two entries of one name
DistinctNames(l) ==
    \A i, j \in 1..Len(l) : i # j => l[i].name # l[j].name

EnTrees ==
    { << DirEntry(<<"d">>, l) >> :
        l \in {x \in TextsUpTo(TopEntries, MaxWidth) : DistinctNames(x)} }

EnBases == { << <<"d">> >> } \cup { << <<"d">>, n >> : n \in EnNames }

EnIgnoreSets ==
    { DEFAULT_IGNORE_DIRS, DEFAULT_IGNORE_DIRS \cup { <<"b">> }, {} }

EnumInit ==
    /\ en_pc = "input"
    /\ en_tree \in EnTrees
    /\ en_base \in EnBases
    /\ en_recursive \in BOOLEAN
    /\ en_ignore_dirs \in EnIgnoreSets
    /\ en_result = <<>>
    /\ en_exts = NoExtsGiven
    /\ MmIdle
    /\ SfIdle
    /\ GuiIdle
    /\ CliIdle

\* list(iter_dirs_files(base, recursive, ignore_dirs))
ListDir ==
    /\ en_pc = "input"
    /\ en_result' = iter_dirs_files(en_tree, en_base, en_recursive, en_ignore_dirs)
    /\ en_pc' = "listed"
    /\ UNCHANGED <<en_tree, en_base, en_recursive, en_ignore_dirs, en_exts>>
    /\ UNCHANGED <<mm_vars, sf_vars, gui_vars, cli_vars>>

EnumNext == ListDir

SpecEnum == EnumInit /\ [][EnumNext]_vars

\* the yielded path p, a directory or not, lies in or is a directory
\* below base whose name is in names
InOrIsNamedDir(p, isdir, base, names) ==
    \E k \in (Len(base) + 1)..Len(p) : (k < Len(p) \/ isdir) /\ p[k] \in names

\* C12: in a recursive enumeration no yielded path is, or lies anywhere
\* beneath, a subdirectory of the base whose name is in the ignore set.
C12_IgnoredDirsPruned ==
    (en_pc = "listed" /\ en_recursive) =>
        \A i \in 1..Len(en_result) :
            ~InOrIsNamedDir(en_result[i][1], en_result[i][2], en_base,
                            en_ignore_dirs)

\* a recursive walk from d over a tree with d/b/.git/a, .git ignored and b
\* not: d/b and d/b/a are yielded, and so is a file that is called .git
C12_Witness ==
    /\ en_pc = "listed"
    /\ en_recursive
    /\ en_base = << <<"d">> >>
    /\ GitName \in en_ignore_dirs
    /\ <<"b">> \notin en_ignore_dirs
    /\ is_file(en_tree, << <<"d">>, <<"b">>, <<"b">>, GitName, <<"a">> >>)
    /\ is_file(en_tree, << <<"d">>, <<"a">>, GitName >>)
    /\ \E i \in 1..Len(en_result) :
          en_result[i][1] = << <<"d">>, <<"b">>, <<"b">> >>
    /\ \E i \in 1..Len(en_result) :
          en_result[i] = << << <<"d">>, <<"a">>, GitName >>, FALSE >>

\* C13: in one pass, of a file root, of one level or recursive, no path is
\* yielded twice.
C13_NoPathTwice ==
    en_pc = "listed" =>
        \A i, j \in 1..Len(en_result) :
            i # j => en_result[i][1] # en_result[j][1]

\* a recursive pass that yields five paths or more, with the name a at
\* two levels
C13_Witness ==
    /\ en_pc = "listed"
    /\ en_recursive
    /\ Len(en_result) >= 5
    /\ \E i, j \in 1..Len(en_result) :
          /\ Len(en_result[i][1]) < Len(en_result[j][1])
          /\ PathName(en_result[i][1]) = <<"a">>
          /\ PathName(en_result[j][1]) = <<"a">>

\* C14 as stated: with the default names in the ignore set, recursive or
\* not, no directory with a default ignored name is yielded.
C14_DefaultsExcludedAlways ==
    (en_pc = "listed" /\ DEFAULT_IGNORE_DIRS \subseteq en_ignore_dirs) =>
        \A i \in 1..Len(en_result) :
            en_result[i][2] => PathName(en_result[i][1]) \notin DEFAULT_IGNORE_DIRS

\* C15 as stated: once the results of a GUI scan are shown and every queued
\* callback has run, the done value the window last received is the number
\* of candidates the scan processed, whether it completed or was stopped.
C15_LastReportIsExact ==
    (ResultsShown /\ after_queue = <<>>) => scan_done = w_done

(***************************************************************************)
(* The window over a filesystem that changes: another process creates a   *)
(* file under d after the worker has counted and before its loop starts.   *)
(***************************************************************************)
NewFile == FileEntry(<<"a", "a">>, TextFile(<< <<"a", "nl">> >>))

FsGrow ==
    /\ fs \in FsPool
    /\ w_pc = "loop"
    /\ w_pos = 0
    /\ fs' = << DirEntry(<<"d">>, Append(fs[1].entries, NewFile)) >>
    /\ UNCHANGED <<ui_vars, after_queue, worker_vars, threads_alive>>
    /\ UNCHANGED <<mm_vars, sf_vars, cli_vars, en_vars>>

NextGrow ==
    \/ CloseDialog
    \/ EditForm
    \/ start_scan
    \/ stop_scan
    \/ WorkerSetup
    \/ WorkerCount
    \/ WorkerLoop
    \/ WorkerFinish
    \/ WorkerExcept
    \/ WorkerFinally
    \/ WorkerExit
    \/ RunCallback
    \/ FsGrow

SpecGrow == GuiInit /\ [][NextGrow]_vars

\* C16 as stated: every progress report queued for the window, and the
\* progress the window shows, has 0 <= done <= total, also when a file
\* appeared between the counting pass and the scan pass.
C16_DoneWithinTotal ==
    /\ \A i \in 1..Len(after_queue) :
          after_queue[i].type = "progress" =>
              /\ 0 <= after_queue[i].done
              /\ after_queue[i].done <= after_queue[i].total
    /\ 0 <= scan_done
    /\ scan_done <= scan_total

\* the worker of the current scan has made its counting pass
GuiCounted ==
    /\ w_pc \in {"loop", "finish", "except", "finally", "exit", "dead"}
    /\ ~BadPattern(w.queries, w.cfg)

\* the console's scan function has made its counting pass
CliCounted == cli_pc = "scan" \/ (cli_pc = "returned" /\ cli_ret = 0)

\* C17: over a filesystem that does not change, the total of the counting
\* pass is the number of candidates the scan pass iterates - a loop that
\* runs to its end has handled exactly total candidates, none handles more
\* - and every progress report of the scan carries that total.
C17_CountAgreesWithScan ==
    /\ GuiCounted =>
          /\ w_total = Len(Candidates(fs, w))
          /\ w_pos <= w_total
          /\ w_done <= w_pos
          /\ (w_pc = "finish" /\ w_pos = w_done) => w_done = w_total
          /\ \A i \in 1..Len(after_queue) :
                after_queue[i].type \in {"set_progress", "progress"} =>
                    after_queue[i].total = w_total
    /\ CliCounted =>
          /\ cli_total = Len(Candidates(fs, cli_l))
          /\ cli_done <= cli_total
          /\ cli_pc = "returned" => cli_done = cli_total

\* a scan of three candidates or more that ran to its end, with the report
\* of its last candidate queued behind an earlier report
C17_Witness ==
    /\ GuiCounted
    /\ w_pc = "finish"
    /\ w_total >= 3
    /\ w_done = w_total
    /\ \E i, j \in 1..Len(after_queue) :
          /\ i < j
          /\ after_queue[i].type = "progress"
          /\ after_queue[i].done < w_total
          /\ after_queue[j] = ProgressCb(w_total, w_total)

\* C18 as stated: the configuration a front end hands to
\* build_multi_matcher with mode regex never has ignore_accents set, in the
\* window's worker and in both console front ends.
C18_RegexNeverFoldsAccents ==
    /\ LocalsSet => (w.cfg.mode = REGEX => ~w.cfg.ignore_accents)
    /\ cli_l # NoLocals => (cli_l.cfg.mode = REGEX => ~cli_l.cfg.ignore_accents)

\* the term list has a term, and no term is blank
TermsValid(queries) ==
    /\ Len(queries) >= 1
    /\ \A i \in 1..Len(queries) : strip(queries[i]) # <<>>

\* C19 as stated: the term list a front end hands to build_multi_matcher,
\* in the window's worker and in both console front ends, has at least one
\* term and no term of it is blank, the fallback term included.
C19_TermsNeverBlank ==
    /\ LocalsSet => TermsValid(w.queries)
    /\ cli_l # NoLocals => TermsValid(cli_l.queries)

\* the entry e = (path, is_dir) is of the kind the name scan l asks for
\* and its name satisfies the scan's matcher
WantedMatch(l, e) ==
    /\ (l.mode = "folders") = e[2]
    /\ multi_matcher(l.queries, l.cfg, PathName(e[1]))

\* hits holds one NameHit, of the entry's kind, for each entry of entries
\* that is wanted and matches, and nothing else
ExactNameHits(l, entries, hits) ==
    /\ \A k \in 1..Len(entries) :
          IF WantedMatch(l, entries[k])
          THEN /\ Cardinality({i \in 1..Len(hits) :
                                  hits[i].path = entries[k][1]}) = 1
               /\ \A i \in 1..Len(hits) :
                     hits[i].path = entries[k][1] =>
                         hits[i].kind = IF entries[k][2] THEN PASTA ELSE ARQUIVO
          ELSE \A i \in 1..Len(hits) : hits[i].path # entries[k][1]
    /\ \A i \in 1..Len(hits) :
          \E k \in 1..Len(entries) : hits[i].path = entries[k][1]

\* what the scan l enumerates
Enumerated(tree, l) ==
    iter_dirs_files(tree, l.base, l.recursive, DEFAULT_IGNORE_DIRS)

\* the worker's name scan has handled every candidate
GuiNameScanDone ==
    /\ w_pc \in {"finish", "finally", "exit", "dead"}
    /\ w.mode \in {"folders", "files"}
    /\ ~BadPattern(w.queries, w.cfg)
    /\ w_done = w_total

\* scan_names_with_progress has returned to the console front end
CliNameScanDone ==
    /\ cli_pc = "returned"
    /\ cli_ret = 0
    /\ cli_l.mode \in {"folders", "files"}

\* C20: a name scan that was not cut short, over a tree that does not
\* change, returns one NameHit per enumerated entry of the requested kind
\* whose name satisfies the matcher, of the kind of the entry, and no
\* other hit; the window shows that list.
C20_NameHitsExact ==
    /\ GuiNameScanDone =>
          /\ ExactNameHits(w, Enumerated(fs, w), w_hits)
          /\ ResultsShown => last_hits_names = w_hits
    /\ CliNameScanDone =>
          ExactNameHits(cli_l, Enumerated(fs, cli_l), cli_hits)

\* a finished scan for files with two hits or more, a file that does not
\* match and a directory whose name would have matched
C20_Witness ==
    /\ GuiNameScanDone
    /\ ResultsShown
    /\ w.mode = "files"
    /\ Len(last_hits_names) >= 2
    /\ Len(last_hits_names) < w_total
    /\ \E k \in 1..Len(Enumerated(fs, w)) :
          /\ Enumerated(fs, w)[k][2]
          /\ multi_matcher(w.queries, w.cfg, PathName(Enumerated(fs, w)[k][1]))

(***************************************************************************)
(* The content-candidate view on its own: iter_content_candidates over the *)
(* trees with up to MaxWidth entries under d, with the allow-list a front  *)
(* end builds from the extensions the user gave.                           *)
(***************************************************************************)
\* what d can hold: files with and without an extension, in either case,
\* and a directory whose name has one
ViewEntries ==
    { FileEntry(<<"a", ".", "b">>, NoFile),
      FileEntry(<<"a", ".", "B">>, NoFile),
      FileEntry(<<".", "b">>, NoFile),
      FileEntry(<<"a">>, NoFile),
      FileEntry(<<"a", ".", "c">>, NoFile),
      FileEntry(<<"b", ".">>, NoFile),
      DirEntry(<<"d", ".", "b">>, << FileEntry(<<"A", ".", "b">>, NoFile) >>) }

ViewTrees ==
    { << DirEntry(<<"d">>, l) >> :
        l \in {x \in TextsUpTo(ViewEntries, MaxWidth) : DistinctNames(x)} }

\* the text of the extensions field or of --exts
RawExts ==
    { <<>>, <<"b">>, <<".", "b">>, <<"B">>, <<" ", ".", "B", ",", "c">>,
      <<",">>, <<".", "c">>, <<"b", ".">>, <<"a", ".", "b">> }

ExtsGiven ==
    { [frontend |-> "gui", all_exts |-> FALSE, raw |-> r] : r \in RawExts }
    \cup { [frontend |-> "cli", all_exts |-> x, raw |-> r] :
              x \in BOOLEAN, r \in RawExts }

\* exts as the front end computes it from what the user gave
FrontEndExts(tree, x) ==
    IF x.frontend = "gui"
    THEN ReadForm(tree, [InitialForm EXCEPT !.exts_var = x.raw]).exts
    ELSE CliExts([all_exts |-> x.all_exts, exts |-> x.raw])

ViewInit ==
    /\ en_pc = "input"
    /\ en_tree \in ViewTrees
    /\ en_base = << <<"d">> >>
    /\ en_recursive \in BOOLEAN
    /\ en_ignore_dirs = DEFAULT_IGNORE_DIRS
    /\ en_result = <<>>
    /\ en_exts \in ExtsGiven
    /\ MmIdle
    /\ SfIdle
    /\ GuiIdle
    /\ CliIdle

\* list(iter_content_candidates(base, recursive, ignore_dirs, exts))
ListContent ==
    /\ en_pc = "input"
    /\ en_result' = iter_content_candidates(en_tree, en_base, en_recursive,
                                            en_ignore_dirs,
                                            FrontEndExts(en_tree, en_exts))
    /\ en_pc' = "viewed"
    /\ UNCHANGED <<en_tree, en_base, en_recursive, en_ignore_dirs, en_exts>>
    /\ UNCHANGED <<mm_vars, sf_vars, gui_vars, cli_vars>>

ViewNext == ListContent

SpecView == ViewInit /\ [][ViewNext]_vars

\* the entries of the allow-list as the user wrote them: the parts between
\* commas, trimmed, the blank ones dropped; the console falls back on dat
WrittenExts(x) ==
    LET parts == split_comma(x.raw, <<>>)
        given == {strip(parts[i]) : i \in 1..Len(parts)} \ {<<>>}
    IN  IF given = {} /\ x.frontend = "cli" THEN {<<"d", "a", "t">>} ELSE given

\* there is no allow-list: all extensions were asked for, or the window's
\* field held no entry
ExtsAbsent(x) ==
    IF x.frontend = "cli" THEN x.all_exts ELSE WrittenExts(x) = {}

\* an entry of the allow-list with its leading dot
WithDot(t) == IF Head(t) = "." THEN t ELSE <<".">> \o t

\* the extension of name is, but for case, an entry of the allow-list
ExtAllowed(name, x) ==
    \E t \in WrittenExts(x) : lower(suffix(name)) = lower(WithDot(t))

\* C21: the content-candidate view yields, once each, exactly the
\* enumerated entries that are not directories and whose extension is,
\* compared without regard to case, an entry of the allow-list written
\* with its leading dot; without an allow-list, every enumerated entry
\* that is not a directory.
C21_ContentViewExact ==
    en_pc = "viewed" =>
        /\ \A k \in 1..Len(iter_dirs_files(en_tree, en_base, en_recursive,
                                            en_ignore_dirs)) :
              (\E i \in 1..Len(en_result) :
                   en_result[i] = iter_dirs_files(en_tree, en_base, en_recursive,
                                                  en_ignore_dirs)[k][1])
              <=> /\ ~iter_dirs_files(en_tree, en_base, en_recursive,
                                      en_ignore_dirs)[k][2]
                  /\ \/ ExtsAbsent(en_exts)
                     \/ ExtAllowed(PathName(iter_dirs_files(en_tree, en_base,
                                       en_recursive, en_ignore_dirs)[k][1]),
                                   en_exts)
        /\ \A i \in 1..Len(en_result) :
              \E k \in 1..Len(iter_dirs_files(en_tree, en_base, en_recursive,
                                               en_ignore_dirs)) :
                  en_result[i] = iter_dirs_files(en_tree, en_base, en_recursive,
                                                 en_ignore_dirs)[k][1]
        /\ \A i, j \in 1..Len(en_result) : i # j => en_result[i] # en_result[j]

\* the allow-list " .B,c" against a tree with a.B and a file that has no
\* extension in it: a.B is yielded, the other is not
C21_Witness ==
    /\ en_pc = "viewed"
    /\ en_exts.raw = <<" ", ".", "B", ",", "c">>
    /\ ~ExtsAbsent(en_exts)
    /\ is_file(en_tree, << <<"d">>, <<"a", ".", "B">> >>)
    /\ is_file(en_tree, << <<"d">>, <<".", "b">> >>)
    /\ en_result = << << <<"d">>, <<"a", ".", "B">> >> >>

(***************************************************************************)
(* The examples of a hit.                                                  *)
(***************************************************************************)
\* the line numbers of the head's lines on which the matcher is true
MatchingHead(f, m) ==
    {i \in 1..Len(f.head) : multi_matcher(m.queries, m.cfg, f.head[i])}

\* the number of lines of the run on which the matcher is true
MatchingRun(f, m) ==
    IF f.rep_count > 0 /\ multi_matcher(m.queries, m.cfg, f.rep)
    THEN f.rep_count ELSE 0

\* the examples ex are the first cap matching lines of f in file order:
\* those of the head by number and text, then those of the run
FirstMatchingLines(ex, f, m, cap) ==
    /\ \A j, k \in 1..Len(ex.list) : j < k => ex.list[j][1] < ex.list[k][1]
    /\ \A j \in 1..Len(ex.list) :
          /\ ex.list[j][1] \in MatchingHead(f, m)
          /\ ex.list[j][2] = Snippet(f.head[ex.list[j][1]])
    /\ \A i \in MatchingHead(f, m) :
          (\E j \in 1..Len(ex.list) : ex.list[j][1] = i)
          <=> Cardinality({i2 \in MatchingHead(f, m) : i2 < i}) < cap
    /\ ex.rep_n = Min(MatchingRun(f, m),
                      Max(0, cap - Cardinality(MatchingHead(f, m))))

\* C22: with max_examples None, the examples of a hit are the first
\* min(m, 50000) matching lines of the file in file order, m being the
\* number of its matching lines, and matches_count is m: the lines that
\* match after the 50,000th capture are counted and not captured.
C22_UnboundedCapturesToCap ==
    (sf_pc = "returned" /\ sf_max_examples = None
     /\ sf_result.hit.kind = "ContentHit") =>
        /\ sf_result.hit.matches_count = MatchingLines(sf_file, sf_matcher)
        /\ NumExamples(sf_result.hit)
              = Min(MatchingLines(sf_file, sf_matcher), HARD_CAP_PER_FILE)
        /\ FirstMatchingLines(sf_result.hit.examples, sf_file, sf_matcher,
                              HARD_CAP_PER_FILE)

\* a file of a matching line and then a run of more than 50,000 matching
\* lines: all are counted, the first 50,000 captured
C22_Witness ==
    /\ sf_pc = "returned"
    /\ sf_max_examples = None
    /\ sf_result.hit.kind = "ContentHit"
    /\ Len(sf_file.head) = 1
    /\ sf_result.hit.matches_count = RunLength + 1
    /\ Len(sf_result.hit.examples.list) = 1
    /\ NumExamples(sf_result.hit) = HARD_CAP_PER_FILE

(***************************************************************************)
(* The normaliser on its own: prep applied to a text, and to its own       *)
(* result, under each of the four configurations.                          *)
(***************************************************************************)
PrepAlphabet == {"a", "A", "E", "e^", "E^", "^", "ss_"}

PrepInit ==
    /\ mm_pc = "input"
    /\ mm_queries = <<>>
    /\ mm_base_cfg \in {MatchConfig(CONTAINS, cs, ia, 78, FALSE) :
                            cs \in BOOLEAN, ia \in BOOLEAN}
    /\ mm_text \in TextsUpTo(PrepAlphabet, MaxTextLen)
    /\ mm_result = FALSE
    /\ SfIdle
    /\ GuiIdle
    /\ CliIdle
    /\ EnIdle

\* prep(s, c, a) and prep(prep(s, c, a), c, a)
PrepTwice(s, c, a) == [once |-> prep(s, c, a), twice |-> prep(prep(s, c, a), c, a)]

Normalize ==
    /\ mm_pc = "input"
    /\ mm_result' = PrepTwice(mm_text, mm_base_cfg.case_sensitive,
                              mm_base_cfg.ignore_accents)
    /\ mm_pc' = "prepped"
    /\ UNCHANGED <<mm_queries, mm_base_cfg, mm_text>>
    /\ UNCHANGED <<sf_vars, gui_vars, cli_vars, en_vars>>

PrepNext == Normalize

SpecPrep == PrepInit /\ [][PrepNext]_vars

\* C23: under each of the four (case_sensitive, ignore_accents)
\* configurations and for every text, the empty one included, prep applied
\* to the result of prep gives that result again.
C23_PrepIdempotent ==
    mm_pc = "prepped" => mm_result.twice = mm_result.once

\* a text with a precomposed accented capital, a sharp s and a loose
\* combining accent, accents ignored and case folded: e, s, s
C23_Witness ==
    /\ mm_pc = "prepped"
    /\ mm_text = <<"E^", "ss_", "^">>
    /\ mm_base_cfg.ignore_accents
    /\ ~mm_base_cfg.case_sensitive
    /\ mm_result.once = <<"e", "s", "s">>

(***************************************************************************)
(* The program under fair scheduling: a worker thread that is alive takes  *)
(* its next step, and the event loop runs the callbacks queued for it.     *)
(* Nothing is assumed of the user or of the console.  The worker's         *)
(* fairness is weak fairness of WorkerStep, written with its enabling      *)
(* condition: a live worker can always take the one step its position      *)
(* allows.                                                                 *)
(***************************************************************************)
WorkerStep ==
    \/ WorkerSetup
    \/ WorkerCount
    \/ WorkerLoop
    \/ WorkerFinish
    \/ WorkerExcept
    \/ WorkerFinally
    \/ WorkerExit

SpecFair ==
    /\ Spec
    /\ ([]<>(~WorkerAlive) \/ []<><<WorkerStep>>_vars)
    /\ WF_vars(RunCallback)

\* a scan is under way: its worker has not queued the terminal handoff,
\* _ui_done, or the handoff is still queued
ScanUnderWay ==
    \/ w_pc \in {"setup", "count", "loop", "finish", "except", "finally"}
    \/ \E i \in 1..Len(after_queue) : after_queue[i] = DoneCb

\* the form is disabled by the start of a scan only, and enabled again by
\* the terminal handoff only
C24_Step ==
    /\ (form_enabled /\ ~form_enabled') => (w_pc # "setup" /\ w_pc' = "setup")
    /\ (~form_enabled /\ form_enabled') =>
          /\ after_queue # <<>>
          /\ Head(after_queue) = DoneCb
          /\ after_queue' = Tail(after_queue)

\* C24: in the window, the form and Scan are disabled and Stop enabled
\* for as long as a scan is under way - from its start until its terminal
\* handoff has run - and every scan that was started, whether it runs to
\* its end, is stopped or fails in the worker, leads to the handoff, which
\* enables the form again.
C24_FormDisabledUntilHandoff ==
    /\ [](ScanUnderWay => (~form_enabled /\ is_scanning))
    /\ [][C24_Step]_vars
    /\ (~form_enabled ~> (form_enabled /\ ~ScanUnderWay))

\* the form enabled again after a scan whose worker failed on its pattern
C24_Witness ==
    /\ w_pc = "dead"
    /\ BadPattern(w.queries, w.cfg)
    /\ after_queue = <<>>
    /\ form_enabled
    /\ ~is_scanning

(***************************************************************************)
(* scan_file_content over files that probe the binary test: lines with a   *)
(* zero byte, with control bytes above, at and below 12% of the sample,    *)
(* and files longer than the sample.                                       *)
(***************************************************************************)
\* three control bytes in a line of n bytes, the line feed included
ControlLine(n) ==
    [i \in 1..n |-> IF i <= 3 THEN "bel" ELSE IF i = n THEN "nl" ELSE "a"]

\* 32 lines of 31 control bytes
ControlRun ==
    [k \in 1..32 |-> [i \in 1..32 |-> IF i = 32 THEN "nl" ELSE "bel"]]

ProbeLines ==
    {<<"a", "nl">>, <<"nul", "nl">>, <<"bel", "nl">>, ControlLine(24), ControlLine(25)}

\* the short files, one line with a control byte followed by three and by
\* four lines of text, and a long text that starts with 992 control bytes
ProbeFiles ==
    {File(h, <<"nl">>, 0, e) : h \in TextsUpTo(ProbeLines, MaxLines),
                               e \in {"none", "read"}}
    \cup {File(<<(<<"bel", "nl">>)>>, <<"a", "nl">>, n, "none") : n \in {3, 4}}
    \cup {File(ControlRun, <<"a", "nl">>, RunLength, "none")}

BinaryInit ==
    /\ sf_pc = "input"
    /\ sf_file \in ProbeFiles
    /\ sf_matcher \in {[queries |-> <<(<<"a">>)>>, cfg |-> DefaultConfig],
                        [queries |-> <<(<<".">>)>>,
                         cfg |-> MatchConfig(REGEX, FALSE, FALSE, 78, FALSE)]}
    /\ sf_max_examples \in {None, 0}
    /\ sf_max_file_size_mb \in {None, 1}
    /\ sf_result = NoResult
    /\ MmIdle
    /\ GuiIdle
    /\ CliIdle
    /\ EnIdle

SpecBinary == BinaryInit /\ [][FileNext]_vars

\* the number of control bytes of a sample: the bytes below 9 and those
\* from 14 to 31
ControlBytes(sample) ==
    Cardinality({i \in 1..Len(sample) :
                    sample[i] < 9 \/ (14 <= sample[i] /\ sample[i] <= 31)})

\* a zero byte, or control bytes for strictly more than 12% of the sample
ZeroOrControl(sample) ==
    \/ \E i \in 1..Len(sample) : sample[i] = 0
    \/ 100 * ControlBytes(sample) > 12 * Len(sample)

\* C25: a file whose sample was read is skipped as binary - None is
\* returned and no line is read - exactly when its first 8192 bytes at
\* most hold a zero byte or hold control bytes for strictly more than 12%
\* of their number; a file with an empty sample is read.
C25_BinaryExactly ==
    (sf_pc = "returned" /\ sf_result.opened /\ sf_file.io_error # "open") =>
        /\ (~sf_result.lines_read)
              <=> ZeroOrControl(read_sample(sf_file, SAMPLE_SIZE))
        /\ ~sf_result.lines_read => sf_result.hit = NoHit
        /\ st_size(sf_file) = 0 => sf_result.lines_read

\* a file of one matching line of 24 bytes, three of them control bytes and
\* none zero: 12.5%, skipped
C25_Witness ==
    /\ sf_pc = "returned"
    /\ sf_file = File(<<ControlLine(24)>>, <<"nl">>, 0, "none")
    /\ MatchingLines(sf_file, sf_matcher) = 1
    /\ sf_result.opened
    /\ ~sf_result.lines_read
    /\ sf_result.hit = NoHit

(***************************************************************************)
(* The fuzzy predicate of one term.                                        *)
(***************************************************************************)
FuzzyApplied ==
    /\ mm_pc = "applied"
    /\ mm_base_cfg.mode = FUZZY
    /\ Len(mm_queries) = 1

\* the normalized query is a substring of the normalized text
QueryInText(q, t, cfg) ==
    IsSubstring(prep(q, cfg.case_sensitive, cfg.ignore_accents),
                prep(t, cfg.case_sensitive, cfg.ignore_accents))

\* the ratio of the normalized query and text is below the threshold
RatioBelow(q, t, cfg) ==
    ~RatioAtLeast(prep(q, cfg.case_sensitive, cfg.ignore_accents),
                  prep(t, cfg.case_sensitive, cfg.ignore_accents),
                  cfg.fuzzy_threshold)

\* C26: in FUZZY mode the predicate of one term accepts every text whose
\* normalized form contains the normalized query, whatever the ratio and
\* the threshold, and rejects every text that does not contain it and
\* whose ratio is below fuzzy_threshold.
C26_FuzzySubstringFirst ==
    FuzzyApplied =>
        /\ QueryInText(mm_queries[1], mm_text, mm_base_cfg) => mm_result
        /\ (/\ ~QueryInText(mm_queries[1], mm_text, mm_base_cfg)
            /\ RatioBelow(mm_queries[1], mm_text, mm_base_cfg)) => ~mm_result

\* the query a against the text abb at threshold 0.78: the ratio is 0.5
\* and the text is accepted
C26_Witness ==
    /\ FuzzyApplied
    /\ mm_queries = <<(<<"a">>)>>
    /\ mm_text = <<"a", "b", "b">>
    /\ mm_base_cfg.fuzzy_threshold = 78
    /\ RatioBelow(mm_queries[1], mm_text, mm_base_cfg)
    /\ mm_result

(***************************************************************************)
(* The two terminal indicators of a scan of the window.                    *)
(***************************************************************************)
\* _ui_done has run for the current scan, whose results are shown
ScanReported == ResultsShown /\ w_pc \in {"exit", "dead"} /\ form_enabled

\* C27: under every interleaving of the Stop click with the worker's last
\* steps, the summary of a scan reads "Parado" (stopped) if and only if
\* its loop was left early by the stop flag, and once _ui_done has run the
\* badge reads "Parado" exactly when the summary does.
C27_StoppedIffLeftEarly ==
    /\ ResultsShown => (res_summary.label = "Parado" <=> StoppedEarly)
    /\ ScanReported => (badge_var = "Parado" <=> res_summary.label = "Parado")

(***************************************************************************)
(* The result lists the window keeps for the export buttons.               *)
(***************************************************************************)
\* the current scan failed in the worker on a term that does not compile,
\* and _ui_done has run for it
FailedScanDone ==
    /\ w_pc \in {"exit", "dead"}
    /\ BadPattern(w.queries, w.cfg)
    /\ form_enabled
    /\ after_queue = <<>>

\* C28: the result lists offered for export are those of the scan started
\* last: once a scan that failed in the worker has been handed back, the
\* lists hold no hit of an earlier scan and the export buttons are
\* disabled.
C28_NoStaleExport ==
    FailedScanDone =>
        /\ last_hits_names = <<>>
        /\ last_hits_content = <<>>
        /\ ~export_enabled

(***************************************************************************)
(* The hard cap on the examples of one file.                               *)
(***************************************************************************)
\* C29: whatever max_examples is - 0, a positive count or None - a hit
\* scan_file_content returns carries at most HARD_CAP_PER_FILE examples.
C29_ExamplesWithinHardCap ==
    (sf_pc = "returned" /\ sf_result.hit.kind = "ContentHit") =>
        NumExamples(sf_result.hit) <= HARD_CAP_PER_FILE

(***************************************************************************)
(* The stop flag from one scan to the next.                                *)
(***************************************************************************)
\* a worker is started with the flag cleared; the flag is raised only
\* between the start of a scan and its _ui_done; and the loop is left with
\* candidates remaining only when the flag is raised
C30_Step ==
    /\ (w_pc # "setup" /\ w_pc' = "setup") => ~stop_flag'
    /\ (~stop_flag /\ stop_flag') => (is_scanning /\ ~form_enabled /\ ScanUnderWay)
    /\ (w_pc = "loop" /\ w_pc' = "finish" /\ w_done < w_total) => stop_flag

\* C30: a stop request does not carry over to a later scan.  Every scan
\* of the window starts with the stop flag cleared before its worker runs,
\* and a scan ends early only on a flag raised while that scan was in
\* progress.
C30_StopNeverCarriesOver == [][C30_Step]_vars

\* a content scan that ran over all its candidates with the flag cleared,
\* after a scan of file names that was stopped before its first candidate
\* (a complete scan of file names has hits) and left the flag raised
C30_Witness ==
    /\ w_pc = "finish"
    /\ w.mode = "content"
    /\ w_total > 0
    /\ w_done = w_total
    /\ ~stop_flag
    /\ last_mode = "files"
    /\ last_hits_names = <<>>

=============================================================================
